---- MODULE Spec2Model ----
(***************************************************************************)
(* FNOL claims agent: the completeness validator and routing classifier    *)
(* of app/router_rules.py and the extraction coordinator of                *)
(* app/extractor.py, as state machines over bounded inputs.                *)
(*                                                                         *)
(* Values.  A Python value is a tagged record: None is [t |-> "none"], a   *)
(* str is [t |-> "str", s |-> <<characters>>] (one-character strings), a   *)
(* float is [t |-> "float", nan, cents] (money in hundredths, NaN apart),  *)
(* a list is [t |-> "list", items].                                        *)
(***************************************************************************)
EXTENDS Integers, Sequences, FiniteSets, TLC

VARIABLES
    pc,             \* position of the caller: which call has returned
    extracted,      \* the ExtractedFields instance handed to the router
    missing,        \* the list identify_missing_fields returned
    missingArg,     \* the list determine_route was called with
    route,          \* determine_route's route name ("" before the call)
    reasoning,      \* determine_route's reasoning text, as fragments
    env_key,        \* os.environ's GEMINI_API_KEY (None when unset)
    genai_key,      \* the key genai.configure last stored in the library
    caller,         \* who called extract_fields: process_claim, or a direct call
    raw_text,       \* the text extract_fields is called with
    response,       \* response.text of the service's answer
    gemini,         \* the model path: untried, ok, or why it raised GeminiAPIError
    extracted_dict, \* what extract_fields returned
    serviceCalls,   \* calls of model.generate_content in this extract_fields call
    heuristicRuns,  \* runs of extract_fields_heuristic in this extract_fields call
    outcome,        \* what the call gave its caller: a response, an error
    file,           \* the file at the path parse_document is called with
    file_type,      \* parse_document's file_type argument
    calls,          \* the extract_fields calls running in threads, by thread
    genai_writer,   \* the thread whose genai.configure wrote genai_key last
    start_key,      \* history: GEMINI_API_KEY in the environment at process start
    request,        \* what process_claim was called with: file, text, and what
                    \* the disk does when the upload is saved
    temp_file_path, \* process_claim's local of that name
    disk            \* the temporary files on disk

routerVars == <<extracted, missing, missingArg, route, reasoning>>
extractVars == <<env_key, genai_key, caller, raw_text, response, gemini,
                 extracted_dict, serviceCalls, heuristicRuns, outcome>>
parserVars == <<file, file_type>>
threadVars == <<calls, genai_writer>>
historyVars == <<start_key>>
uploadVars == <<request, temp_file_path, disk>>
vars == <<pc, routerVars, extractVars, parserVars, threadVars, historyVars,
         uploadVars>>

----------------------------------------------------------------------------
(* Bounds of the model *)

\* longest whitespace-only string drawn for a leaf
MaxBlank == 1
\* damage amounts are drawn within this many cents of the threshold
MaxDelta == 1
\* extract_fields calls running at the same time, one per thread
NumThreads == 2
\* temporary files left on disk before the model stops taking uploads
MaxTempFiles == 1

----------------------------------------------------------------------------
(* Python values *)

None == [t |-> "none"]
Str(s) == [t |-> "str", s |-> s]
Float(c) == [t |-> "float", nan |-> FALSE, cents |-> c]
NaN == [t |-> "float", nan |-> TRUE, cents |-> 0]

\* Python's float comparison a < b: False whenever either side is NaN
FloatLt(a, b) == ~a.nan /\ ~b.nan /\ a.cents < b.cents

\* characters str.strip() removes (the ASCII whitespace the model draws)
Whitespace == {" ", "\t", "\n"}

UpperAlpha == <<"A","B","C","D","E","F","G","H","I","J","K","L","M",
                "N","O","P","Q","R","S","T","U","V","W","X","Y","Z">>
LowerAlpha == <<"a","b","c","d","e","f","g","h","i","j","k","l","m",
                "n","o","p","q","r","s","t","u","v","w","x","y","z">>

LowerChar(c) ==
    IF \E i \in 1..26 : UpperAlpha[i] = c
    THEN LowerAlpha[CHOOSE i \in 1..26 : UpperAlpha[i] = c]
    ELSE c

\* str.lower()
lower(s) == [i \in 1..Len(s) |-> LowerChar(s[i])]

SetMin(S) == CHOOSE x \in S : \A y \in S : x <= y
SetMax(S) == CHOOSE x \in S : \A y \in S : x >= y

\* str.strip()
strip(s) ==
    LET keep == {i \in 1..Len(s) : s[i] \notin Whitespace}
    IN  IF keep = {} THEN <<>> ELSE SubSeq(s, SetMin(keep), SetMax(keep))

\* Python's  needle in hay  for strings
Contains(hay, needle) ==
    \E i \in 0..(Len(hay) - Len(needle)) :
        SubSeq(hay, i + 1, i + Len(needle)) = needle

----------------------------------------------------------------------------
(* app/router_rules.py: constants *)

MANDATORY_FIELDS ==
    << "policyInformation.policyNumber",
       "policyInformation.policyholderName",
       "incidentInformation.date",
       "incidentInformation.description",
       "claimType",
       "assetDetails.estimatedDamage" >>

FRAUD_KEYWORDS ==
    << <<"f","r","a","u","d">>,
       <<"i","n","c","o","n","s","i","s","t","e","n","t">>,
       <<"s","t","a","g","e","d">> >>

\* 25000.0, in cents
FAST_TRACK_THRESHOLD == 2500000

----------------------------------------------------------------------------
(* app/router_rules.py: identify_missing_fields *)

\* field_path.split(".")
split(field_path) ==
    CASE field_path = "policyInformation.policyNumber" ->
            <<"policyInformation", "policyNumber">>
      [] field_path = "policyInformation.policyholderName" ->
            <<"policyInformation", "policyholderName">>
      [] field_path = "incidentInformation.date" ->
            <<"incidentInformation", "date">>
      [] field_path = "incidentInformation.description" ->
            <<"incidentInformation", "description">>
      [] field_path = "assetDetails.estimatedDamage" ->
            <<"assetDetails", "estimatedDamage">>
      [] OTHER -> <<field_path>>

\* getattr(obj, name, None)
getattr(obj, name) == IF name \in DOMAIN obj THEN obj[name] ELSE None

\* the value the loop body resolves for one path (lines 50-64)
resolve(e, field_path) ==
    LET parts == split(field_path)
    IN  IF Len(parts) = 1 THEN getattr(e, parts[1])
        ELSE IF Len(parts) = 2
             THEN LET parent == getattr(e, parts[1])
                  IN  IF parent = None THEN None ELSE getattr(parent, parts[2])
             ELSE None

\* mutant: only None counts as missing (the blank-string test dropped)
is_missing_value_none_only(value) == value = None

\* mutant: a truthiness test,  if not value
is_missing_value_falsy(value) ==
    \/ value = None
    \/ (value.t = "str" /\ value.s = <<>>)
    \/ (value.t = "float" /\ ~value.nan /\ value.cents = 0)

\* line 67: value is None or (isinstance(value, str) and value.strip() == "")
is_missing_value(value) ==
    \/ value = None
    \/ (value.t = "str" /\ strip(value.s) = <<>>)

\* lines 46-70: the loop over MANDATORY_FIELDS, acc being the list  missing
RECURSIVE missing_loop(_, _, _)

\* mutant: missing.insert(0, field_path) instead of missing.append(field_path)
missing_loop_prepend(e, i, acc) ==
    IF i > Len(MANDATORY_FIELDS) THEN acc
    ELSE missing_loop(e, i + 1,
            IF is_missing_value(resolve(e, MANDATORY_FIELDS[i]))
            THEN <<MANDATORY_FIELDS[i]>> \o acc
            ELSE acc)

missing_loop(e, i, acc) ==
    IF i > Len(MANDATORY_FIELDS) THEN acc
    ELSE missing_loop(e, i + 1,
            IF is_missing_value(resolve(e, MANDATORY_FIELDS[i]))
            THEN Append(acc, MANDATORY_FIELDS[i])
            ELSE acc)

identify_missing_fields(e) == missing_loop(e, 1, <<>>)

----------------------------------------------------------------------------
(* app/router_rules.py: check_fraud_keywords, determine_route *)

\* mutant: the keywords are looked for without lower-casing the description
check_fraud_keywords_case_sensitive(description) ==
    IF description = None THEN FALSE
    ELSE \E k \in 1..Len(FRAUD_KEYWORDS) :
            Contains(description.s, FRAUD_KEYWORDS[k])

check_fraud_keywords(description) ==
    IF description = None THEN FALSE
    ELSE LET description_lower == lower(description.s)
         IN  \E k \in 1..Len(FRAUD_KEYWORDS) :
                Contains(description_lower, FRAUD_KEYWORDS[k])

\* ", ".join(items), as fragments
RECURSIVE join(_, _)
join(sep, items) ==
    IF items = <<>> THEN <<>>
    ELSE IF Len(items) = 1 THEN <<items[1]>>
    ELSE <<items[1], sep>> \o join(sep, Tail(items))

DigitChar(d) == <<"0","1","2","3","4","5","6","7","8","9">>[d + 1]

RECURSIVE decimal(_)
decimal(n) ==
    IF n < 10 THEN <<DigitChar(n)>>
    ELSE Append(decimal(n \div 10), DigitChar(n % 10))

\* the integer part with thousands separators
RECURSIVE grouped(_)
grouped(n) ==
    IF n < 1000 THEN decimal(n)
    ELSE grouped(n \div 1000) \o
         <<",", DigitChar((n % 1000) \div 100),
                DigitChar((n % 100) \div 10), DigitChar(n % 10)>>

\* format(x, ",.2f") of an amount held in cents
format_money(c) ==
    LET a == IF c < 0 THEN 0 - c ELSE c
    IN  (IF c < 0 THEN <<"-">> ELSE <<>>) \o grouped(a \div 100) \o
        <<".", DigitChar((a % 100) \div 10), DigitChar(a % 10)>>

\* lines 122-125
investigation_reasoning ==
    <<"Claim flagged for investigation due to presence of fraud indicators ",
      "in the incident description. Manual review required to assess validity.">>

\* the reasoning with the paths joined last to first
manual_review_reasoning_reversed(m) ==
    <<"Claim requires manual review due to missing mandatory fields: ">>
    \o join(", ", [i \in 1..Len(m) |-> m[Len(m) + 1 - i]]) \o
    <<". ", "Complete information is needed before processing can continue.">>

\* lines 131-135
manual_review_reasoning(m) ==
    <<"Claim requires manual review due to missing mandatory fields: ">>
    \o join(", ", m) \o
    <<". ", "Complete information is needed before processing can continue.">>

\* lines 141-144
specialist_reasoning ==
    <<"Claim routed to specialist queue due to injury claim type. ",
      "Specialized handling required for injury-related claims.">>

\* lines 151-154
fast_track_reasoning(estimated_damage) ==
    <<"Claim eligible for fast-track processing with estimated damage of ", "$">>
    \o format_money(estimated_damage.cents) \o
    <<", which is below the ", "$">>
    \o format_money(FAST_TRACK_THRESHOLD) \o <<" threshold.">>

\* lines 159-162
standard_reasoning ==
    <<"Claim routed to standard processing queue. ",
      "No special conditions identified requiring alternative routing.">>

\* mutant: claimType compared with "injury" without lower-casing it
is_injury_claim_case_sensitive(e) ==
    /\ e.claimType # None
    /\ e.claimType.s # <<>>
    /\ e.claimType.s = <<"i","n","j","u","r","y">>

\* line 140: extracted.claimType and extracted.claimType.lower() == "injury"
is_injury_claim(e) ==
    /\ e.claimType # None
    /\ e.claimType.s # <<>>
    /\ lower(e.claimType.s) = <<"i","n","j","u","r","y">>

\* mutant: the threshold itself qualifies (<= for <)
is_fast_track_le(estimated_damage) ==
    /\ estimated_damage # None
    /\ ~estimated_damage.nan
    /\ estimated_damage.cents <= FAST_TRACK_THRESHOLD

\* line 150: estimated_damage is not None and estimated_damage < FAST_TRACK_THRESHOLD
is_fast_track(estimated_damage) ==
    /\ estimated_damage # None
    /\ FloatLt(estimated_damage, Float(FAST_TRACK_THRESHOLD))

\* mutant: the missing-list guard evaluated before the fraud guard
determine_route_missing_first(e, m) ==
    IF m # <<>>
    THEN [route |-> "ManualReview", reasoning |-> manual_review_reasoning(m)]
    ELSE IF check_fraud_keywords(e.incidentInformation.description)
    THEN [route |-> "Investigation", reasoning |-> investigation_reasoning]
    ELSE IF is_injury_claim(e)
    THEN [route |-> "SpecialistQueue", reasoning |-> specialist_reasoning]
    ELSE IF is_fast_track(e.assetDetails.estimatedDamage)
    THEN [route |-> "FastTrack",
          reasoning |-> fast_track_reasoning(e.assetDetails.estimatedDamage)]
    ELSE [route |-> "Standard", reasoning |-> standard_reasoning]

\* mutant: the damage guard evaluated before the injury guard
determine_route_damage_first(e, m) ==
    IF check_fraud_keywords(e.incidentInformation.description)
    THEN [route |-> "Investigation", reasoning |-> investigation_reasoning]
    ELSE IF m # <<>>
    THEN [route |-> "ManualReview", reasoning |-> manual_review_reasoning(m)]
    ELSE IF is_fast_track(e.assetDetails.estimatedDamage)
    THEN [route |-> "FastTrack",
          reasoning |-> fast_track_reasoning(e.assetDetails.estimatedDamage)]
    ELSE IF is_injury_claim(e)
    THEN [route |-> "SpecialistQueue", reasoning |-> specialist_reasoning]
    ELSE [route |-> "Standard", reasoning |-> standard_reasoning]

\* mutant: a classifier that keeps state between calls and answers a
\* repeated call from it
determine_route_remembering(e, m) ==
    IF pc = "routed"
    THEN [route |-> "Standard", reasoning |-> standard_reasoning]
    ELSE IF check_fraud_keywords(e.incidentInformation.description)
    THEN [route |-> "Investigation", reasoning |-> investigation_reasoning]
    ELSE IF m # <<>>
    THEN [route |-> "ManualReview", reasoning |-> manual_review_reasoning(m)]
    ELSE IF is_injury_claim(e)
    THEN [route |-> "SpecialistQueue", reasoning |-> specialist_reasoning]
    ELSE IF is_fast_track(e.assetDetails.estimatedDamage)
    THEN [route |-> "FastTrack",
          reasoning |-> fast_track_reasoning(e.assetDetails.estimatedDamage)]
    ELSE [route |-> "Standard", reasoning |-> standard_reasoning]

\* the cascade with the keyword check run on the other text fields as well
determine_route_any_field(e, m) ==
    IF \/ check_fraud_keywords(e.incidentInformation.description)
       \/ check_fraud_keywords(e.incidentInformation.location)
       \/ check_fraud_keywords(e.policyInformation.policyholderName)
       \/ check_fraud_keywords(e.assetDetails.assetType)
       \/ check_fraud_keywords(e.claimType)
    THEN [route |-> "Investigation", reasoning |-> investigation_reasoning]
    ELSE IF m # <<>>
    THEN [route |-> "ManualReview", reasoning |-> manual_review_reasoning(m)]
    ELSE IF is_injury_claim(e)
    THEN [route |-> "SpecialistQueue", reasoning |-> specialist_reasoning]
    ELSE IF is_fast_track(e.assetDetails.estimatedDamage)
    THEN [route |-> "FastTrack",
          reasoning |-> fast_track_reasoning(e.assetDetails.estimatedDamage)]
    ELSE [route |-> "Standard", reasoning |-> standard_reasoning]

\* lines 95-163: the cascade, first guard that holds returns
determine_route(e, m) ==
    IF check_fraud_keywords(e.incidentInformation.description)
    THEN [route |-> "Investigation", reasoning |-> investigation_reasoning]
    ELSE IF m # <<>>
    THEN [route |-> "ManualReview", reasoning |-> manual_review_reasoning(m)]
    ELSE IF is_injury_claim(e)
    THEN [route |-> "SpecialistQueue", reasoning |-> specialist_reasoning]
    ELSE LET estimated_damage == e.assetDetails.estimatedDamage
         IN  IF is_fast_track(estimated_damage)
             THEN [route |-> "FastTrack",
                   reasoning |-> fast_track_reasoning(estimated_damage)]
             ELSE [route |-> "Standard", reasoning |-> standard_reasoning]

----------------------------------------------------------------------------
(* Python's re, as far as app/extractor.py uses it: patterns are trees, a   *)
(* match is found by backtracking, and every search is re.IGNORECASE.      *)
(* Ends(text, node, pos) lists, in the order the backtracking matcher      *)
(* tries them, the ways node can match at pos: where the match ends and    *)
(* what the capturing group holds.  The first entry is what re returns.    *)

Digits == {"0","1","2","3","4","5","6","7","8","9"}
Letters == {LowerAlpha[i] : i \in 1..26}

\* a character set [..] / [^..]: literal characters (lower case) and the
\* classes \s \d \w and a-z
Set(lits, cls) == [k |-> "set", neg |-> FALSE, lits |-> lits, cls |-> cls, ci |-> TRUE]
NotSet(lits, cls) == [k |-> "set", neg |-> TRUE, lits |-> lits, cls |-> cls, ci |-> TRUE]
Ch(c) == Set({c}, {})
\* a set of a pattern compiled without re.IGNORECASE
ExactSet(lits, cls) == [k |-> "set", neg |-> FALSE, lits |-> lits, cls |-> cls, ci |-> FALSE]
\* $ : the end of the text, or just before a newline that ends it
EndOfText == [k |-> "eos"]
\* items[i..] is what is still to match
Cat(items) == [k |-> "cat", items |-> items, i |-> 1]
Alt(items) == [k |-> "alt", items |-> items, i |-> 1]
\* node{min,max}, max = -1 for no upper limit; greedy or lazy
\* count is the number of iterations already matched
Rep(node, min, max, greedy) ==
    [k |-> "rep", node |-> node, min |-> min, max |-> max, greedy |-> greedy,
     count |-> 0]
Star(node) == Rep(node, 0, 0 - 1, TRUE)
Plus(node) == Rep(node, 1, 0 - 1, TRUE)
LazyPlus(node) == Rep(node, 1, 0 - 1, FALSE)
Opt(node) == Rep(node, 0, 1, TRUE)
\* ( ... ), the capturing group
Cap(node) == [k |-> "cap", node |-> node]
\* (?! ... )
NotAhead(node) == [k |-> "nla", node |-> node]
\* a literal word (given in lower case), letter case ignored
Lit(chars) == [k |-> "lit", chars |-> chars]

\* one character against a set, letter case ignored under re.IGNORECASE
CharMatches(c, set) ==
    LET lc == IF set.ci THEN LowerChar(c) ELSE c
        hit == \/ lc \in set.lits
               \/ ("s" \in set.cls /\ c \in Whitespace)
               \/ ("d" \in set.cls /\ c \in Digits)
               \/ ("az" \in set.cls /\ lc \in Letters)
               \/ ("w" \in set.cls /\ (lc \in Letters \/ c \in Digits \/ c = "_"))
    IN  hit # set.neg

\* a repeated character set: the run of matching characters from pos decides;
\* greedy tries the longest repetition first, lazy the shortest
SetRunEnds(text, rep, pos) ==
    LET run == SetMax({n \in 0..(Len(text) - pos + 1) :
                    \A i \in 0..(n - 1) : CharMatches(text[pos + i], rep.node)})
        most == IF rep.max # 0 - 1 /\ rep.max < run THEN rep.max ELSE run
    IN  [j \in 1..(IF most < rep.min THEN 0 ELSE most - rep.min + 1) |->
            [e |-> pos + (IF rep.greedy THEN most - j + 1 ELSE rep.min + j - 1),
             cap |-> <<>>]]

RECURSIVE Ends(_, _, _)
RECURSIVE Then(_, _, _, _)

\* the matches rest, holding the group cap when a group was already captured
WithCap(cap, rest) ==
    [n \in 1..Len(rest) |->
        [e |-> rest[n].e, cap |-> IF cap # <<>> THEN cap ELSE rest[n].cap]]

\* the matches inner of a group that opens at pos
Captured(pos, inner) ==
    [n \in 1..Len(inner) |-> [e |-> inner[n].e, cap |-> <<pos, inner[n].e>>]]

\* for each way the head matched (firsts[j..]), the ways tail matches after it
Then(text, firsts, j, tail) ==
    IF j > Len(firsts) THEN <<>>
    ELSE WithCap(firsts[j].cap, Ends(text, tail, firsts[j].e))
         \o Then(text, firsts, j + 1, tail)

Ends(text, node, pos) ==
    CASE node.k = "set" ->
            IF pos <= Len(text) /\ CharMatches(text[pos], node)
            THEN << [e |-> pos + 1, cap |-> <<>>] >>
            ELSE <<>>
      [] node.k = "lit" ->
            IF /\ pos + Len(node.chars) - 1 <= Len(text)
               /\ \A i \in 1..Len(node.chars) :
                     LowerChar(text[pos + i - 1]) = node.chars[i]
            THEN << [e |-> pos + Len(node.chars), cap |-> <<>>] >>
            ELSE <<>>
      [] node.k = "rep" /\ node.node.k = "set" -> SetRunEnds(text, node, pos)
      [] node.k = "cat" ->
            IF node.i > Len(node.items) THEN << [e |-> pos, cap |-> <<>>] >>
            ELSE Then(text, Ends(text, node.items[node.i], pos), 1,
                      [node EXCEPT !.i = node.i + 1])
      [] node.k = "alt" ->
            IF node.i > Len(node.items) THEN <<>>
            ELSE Ends(text, node.items[node.i], pos)
                 \o Ends(text, [node EXCEPT !.i = node.i + 1], pos)
      [] node.k = "rep" ->
            (IF ~node.greedy /\ node.count >= node.min
             THEN << [e |-> pos, cap |-> <<>>] >> ELSE <<>>)
            \o (IF node.max # 0 - 1 /\ node.count >= node.max THEN <<>>
                ELSE Then(text, Ends(text, node.node, pos), 1,
                          [node EXCEPT !.count = node.count + 1]))
            \o (IF node.greedy /\ node.count >= node.min
                THEN << [e |-> pos, cap |-> <<>>] >> ELSE <<>>)
      [] node.k = "cap" ->
            Captured(pos, Ends(text, node.node, pos))
      [] node.k = "nla" ->
            IF Ends(text, node.node, pos) = <<>>
            THEN << [e |-> pos, cap |-> <<>>] >>
            ELSE <<>>
      [] node.k = "eos" ->
            IF \/ pos = Len(text) + 1
               \/ (pos = Len(text) /\ text[pos] = "\n")
            THEN << [e |-> pos, cap |-> <<>>] >>
            ELSE <<>>

\* the match that starts at start, first being the way the matcher takes
match_at(text, start, first) ==
    [found |-> TRUE, start |-> start, end |-> first.e,
     group1 |-> IF first.cap = <<>> THEN <<>>
                ELSE SubSeq(text, first.cap[1], first.cap[2] - 1)]

\* re.search(pattern, text): the leftmost match, its span [start, end) and
\* group(1), the text of the capturing group (empty when there is none)
search_from(pattern, text, from) ==
    LET starts == {p \in from..(Len(text) + 1) : Ends(text, pattern, p) # <<>>}
    IN  IF starts = {}
        THEN [found |-> FALSE, start |-> 0, end |-> 0, group1 |-> <<>>]
        ELSE match_at(text, SetMin(starts), Ends(text, pattern, SetMin(starts))[1])

search(pattern, text) == search_from(pattern, text, 1)

----------------------------------------------------------------------------
(* app/extractor.py: the patterns of extract_fields_heuristic *)

\* pieces the patterns share
Ws == Star(Set({}, {"s"}))                       \* \s*
Sep == Plus(Set({":"}, {"s"}))                   \* [\s:]+
Line == Plus(NotSet({"\n"}, {}))                 \* [^\n]+
Ident == Plus(Set({"-"}, {"az", "d"}))           \* [A-Z0-9-]+
AlphaNum == Plus(Set({}, {"az", "d"}))           \* [A-Z0-9]+
Word == Plus(Set({}, {"az"}))                    \* [A-Za-z]+
NameLazy == LazyPlus(Set({}, {"az", "s"}))       \* [A-Za-z\s]+?
Digit == Set({}, {"d"})                          \* \d
\* \d{1,2}[/-]\d{1,2}[/-]\d{2,4}
DateNum == Cat(<< Rep(Digit, 1, 2, TRUE), Set({"/", "-"}, {}),
                  Rep(Digit, 1, 2, TRUE), Set({"/", "-"}, {}),
                  Rep(Digit, 2, 4, TRUE) >>)
\* \d{1,2}:\d{2}(?:\s*[AP]M)?
ClockTime == Cat(<< Rep(Digit, 1, 2, TRUE), Ch(":"), Rep(Digit, 2, 2, TRUE),
                    Opt(Cat(<< Ws, Set({"a", "p"}, {}), Ch("m") >>)) >>)
\* \$?([\d,]+(?:\.\d{2})?)
Amount == Cat(<< Opt(Ch("$")),
                 Cap(Cat(<< Plus(Set({","}, {"d"})),
                            Opt(Cat(<< Ch("."), Rep(Digit, 2, 2, TRUE) >>)) >>)) >>)
\* the group of desc_patterns: [^\n]+ , then any number of (?:\n(?!\w+:)[^\n]+)
Paragraph ==
    Cap(Cat(<< Line,
               Star(Cat(<< Ch("\n"),
                           NotAhead(Cat(<< Plus(Set({}, {"w"})), Ch(":") >>)),
                           Line >>)) >>))
IncidentLossAccident == Alt(<< Lit(<<"i","n","c","i","d","e","n","t">>), Lit(<<"l","o","s","s">>), Lit(<<"a","c","c","i","d","e","n","t">>) >>)

\* lines 178-181
policy_patterns ==
    << Cat(<< Lit(<<"p","o","l","i","c","y">>), Ws,
              Alt(<< Lit(<<"n","u","m","b","e","r">>), Ch("#"), Cat(<< Lit(<<"n","o">>), Opt(Ch(".")) >>) >>),
              Sep, Cap(Ident) >>),
       Cat(<< Lit(<<"p","o","l","i","c","y">>), Sep, Cap(Ident) >>) >>

\* lines 189-192
name_patterns ==
    << Cat(<< Lit(<<"p","o","l","i","c","y","h","o","l","d","e","r">>), Sep, Cap(NameLazy),
              Alt(<< Ch("\n"), Ch(","), Lit(<<"p","o","l","i","c","y">>) >>) >>),
       Cat(<< Lit(<<"i","n","s","u","r","e","d">>), Sep, Cap(NameLazy), Alt(<< Ch("\n"), Ch(",") >>) >>) >>

\* lines 200-204
date_patterns ==
    << Cat(<< IncidentLossAccident, Ws, Lit(<<"d","a","t","e">>), Sep, Cap(DateNum) >>),
       Cat(<< Lit(<<"d","a","t","e">>), Ws, Lit(<<"o","f">>), Ws, IncidentLossAccident, Sep, Cap(DateNum) >>),
       Cap(DateNum) >>

\* lines 212-215
time_patterns ==
    << Cat(<< IncidentLossAccident, Ws, Lit(<<"t","i","m","e">>), Sep, Cap(ClockTime) >>),
       Cat(<< Lit(<<"t","i","m","e">>), Sep, Cap(ClockTime) >>) >>

\* lines 223-226
location_patterns ==
    << Cat(<< Lit(<<"l","o","c","a","t","i","o","n">>), Sep, Cap(Line) >>),
       Cat(<< Alt(<< Lit(<<"i","n","c","i","d","e","n","t">>), Lit(<<"a","c","c","i","d","e","n","t">>) >>), Ws, Lit(<<"l","o","c","a","t","i","o","n">>), Sep, Cap(Line) >>) >>

\* lines 234-237
desc_patterns ==
    << Cat(<< Lit(<<"d","e","s","c","r","i","p","t","i","o","n">>), Sep, Paragraph >>),
       Cat(<< Lit(<<"i","n","c","i","d","e","n","t">>), Ws, Lit(<<"d","e","s","c","r","i","p","t","i","o","n">>), Sep, Paragraph >>) >>

\* lines 245-247
claimant_patterns ==
    << Cat(<< Lit(<<"c","l","a","i","m","a","n","t">>), Sep, Cap(NameLazy), Alt(<< Ch("\n"), Ch(",") >>) >>) >>

\* lines 255-259
contact_patterns ==
    << Cat(<< Lit(<<"c","o","n","t","a","c","t">>), Sep, Cap(Line) >>),
       Cat(<< Lit(<<"p","h","o","n","e">>), Sep, Cap(Line) >>),
       Cat(<< Lit(<<"e","m","a","i","l">>), Sep, Cap(Line) >>) >>

\* lines 267-271
damage_patterns ==
    << Cat(<< Lit(<<"e","s","t","i","m","a","t","e","d">>), Ws, Lit(<<"d","a","m","a","g","e">>), Sep, Amount >>),
       Cat(<< Lit(<<"d","a","m","a","g","e">>), Sep, Amount >>),
       Cat(<< Lit(<<"l","o","s","s">>), Ws, Lit(<<"a","m","o","u","n","t">>), Sep, Amount >>) >>

\* lines 283-286
claim_type_patterns ==
    << Cat(<< Lit(<<"c","l","a","i","m">>), Ws, Lit(<<"t","y","p","e">>), Sep, Cap(Word) >>),
       Cat(<< Lit(<<"t","y","p","e">>), Ws, Lit(<<"o","f">>), Ws, Lit(<<"c","l","a","i","m">>), Sep, Cap(Word) >>) >>

\* lines 294-297
asset_patterns ==
    << Cat(<< Lit(<<"a","s","s","e","t">>), Ws, Lit(<<"t","y","p","e">>), Sep, Cap(Line) >>),
       Cat(<< Lit(<<"v","e","h","i","c","l","e">>), Ws, Lit(<<"t","y","p","e">>), Sep, Cap(Line) >>) >>

\* lines 305-309
asset_id_patterns ==
    << Cat(<< Alt(<< Lit(<<"v","i","n">>), Cat(<< Lit(<<"v","e","h","i","c","l","e">>), Ws, Lit(<<"i","d">>) >>) >>), Sep, Cap(AlphaNum) >>),
       Cat(<< Lit(<<"l","i","c","e","n","s","e">>), Ws, Lit(<<"p","l","a","t","e">>), Sep, Cap(Ident) >>),
       Cat(<< Lit(<<"a","s","s","e","t">>), Ws, Lit(<<"i","d">>), Sep, Cap(Ident) >>) >>

----------------------------------------------------------------------------
(* app/extractor.py: extract_fields_heuristic *)

\* for pattern in patterns: match = re.search(...); if match: ...; break
\* index is the alternative that matched, 0 when none did
RECURSIVE first_match(_, _, _)
first_match(patterns, text, i) ==
    IF i > Len(patterns) THEN [index |-> 0, group1 |-> <<>>]
    ELSE LET m == search(patterns[i], text)
         IN  IF m.found THEN [index |-> i, group1 |-> m.group1]
             ELSE first_match(patterns, text, i + 1)

\* the leaf a string block stores: match.group(1).strip(), else still None
string_leaf(patterns, text) ==
    LET m == first_match(patterns, text, 1)
    IN  IF m.index = 0 THEN None ELSE Str(strip(m.group1))

\* amount_str.replace(',', '')
remove_commas(str) == SelectSeq(str, LAMBDA c : c # ",")

DigitValue(c) == CHOOSE d \in 0..9 : DigitChar(d) = c

RECURSIVE digits_value(_)
digits_value(str) ==
    IF str = <<>> THEN 0
    ELSE 10 * digits_value(SubSeq(str, 1, Len(str) - 1)) + DigitValue(str[Len(str)])

\* float(str) on digits with at most one point and two decimals, in cents;
\* ok is FALSE where float raises ValueError (no digit at all)
float_of(str) ==
    LET dots == {i \in 1..Len(str) : str[i] = "."}
        dot == IF dots = {} THEN Len(str) + 1 ELSE SetMin(dots)
        whole == SubSeq(str, 1, dot - 1)
        frac == SubSeq(str, dot + 1, Len(str))
        wellformed == /\ Cardinality(dots) <= 1
                      /\ \A i \in 1..Len(str) : str[i] \in Digits \cup {"."}
                      /\ Len(whole) + Len(frac) >= 1
                      /\ Len(frac) <= 2
        cents == 100 * digits_value(whole)
                 + (IF Len(frac) = 2 THEN digits_value(frac)
                    ELSE IF Len(frac) = 1 THEN 10 * digits_value(frac) ELSE 0)
    IN  IF wellformed THEN [ok |-> TRUE, value |-> Float(cents)]
        ELSE [ok |-> FALSE, value |-> None]

\* the damage block without its  except ValueError : the error is the outcome
damage_leaf_uncaught(text) ==
    LET m == first_match(damage_patterns, text, 1)
        parsed == float_of(remove_commas(m.group1))
    IN  IF m.index = 0 THEN None
        ELSE IF parsed.ok THEN parsed.value
        ELSE [t |-> "raised", exc |-> "ValueError"]

\* the damage block with  continue  in place of  break  after a failed parse
damage_leaf_next_pattern(text) ==
    LET m == first_match(damage_patterns, text, 1)
        parsed == float_of(remove_commas(m.group1))
        m2 == first_match(damage_patterns, text, m.index + 1)
        parsed2 == float_of(remove_commas(m2.group1))
    IN  IF m.index = 0 THEN None
        ELSE IF parsed.ok THEN parsed.value
        ELSE IF m2.index # 0 /\ parsed2.ok THEN parsed2.value
        ELSE None

\* lines 272-280: the damage block
damage_leaf(text) ==
    LET m == first_match(damage_patterns, text, 1)
        amount_str == remove_commas(m.group1)
        parsed == float_of(amount_str)
    IN  IF m.index # 0 /\ parsed.ok THEN parsed.value ELSE None

\* lines 287-291: the claim type block
claim_type_leaf(text) ==
    LET m == first_match(claim_type_patterns, text, 1)
    IN  IF m.index = 0 THEN None ELSE Str(lower(strip(m.group1)))

\* a dict with string keys
Dict(d) == [t |-> "dict", d |-> d]

extract_fields_heuristic(text) ==
    Dict([ policyInformation |-> Dict([
               policyNumber |-> string_leaf(policy_patterns, text),
               policyholderName |-> string_leaf(name_patterns, text),
               effectiveDates |-> None ]),
           incidentInformation |-> Dict([
               date |-> string_leaf(date_patterns, text),
               time |-> string_leaf(time_patterns, text),
               location |-> string_leaf(location_patterns, text),
               description |-> string_leaf(desc_patterns, text) ]),
           involvedParties |-> Dict([
               claimant |-> string_leaf(claimant_patterns, text),
               thirdParties |-> None,
               contactDetails |-> string_leaf(contact_patterns, text) ]),
           assetDetails |-> Dict([
               assetType |-> string_leaf(asset_patterns, text),
               assetId |-> string_leaf(asset_id_patterns, text),
               estimatedDamage |-> damage_leaf(text) ]),
           claimType |-> claim_type_leaf(text),
           attachments |-> None,
           initialEstimate |-> None ])

----------------------------------------------------------------------------
(* app/extractor.py: extract_fields_with_gemini *)

\* a JSON array
List(items) == [t |-> "list", items |-> items]

\* line 35: if not api_key
no_api_key(api_key) == api_key = None \/ api_key.s = <<>>

\* _configure_gemini without the test of line 35: a model handle in any case
configure_gemini_unchecked(api_key) == [t |-> "model", key |-> api_key]

\* lines 34-39: _configure_gemini: the model handle, None without a key
configure_gemini(api_key) ==
    IF no_api_key(api_key) THEN None ELSE [t |-> "model", key |-> api_key]

\* The service's answer is text.  A JSON document in it is held as one
\* symbol (a DOC_ string) standing for the document's text; json.loads maps
\* the symbol to the value the document denotes.
Doc(desc, ctype, damage) ==
    Dict([ policyInformation |-> Dict([
               policyNumber |-> Str(<<"P","1">>),
               policyholderName |-> Str(<<"A","l">>),
               effectiveDates |-> None ]),
           incidentInformation |-> Dict([
               date |-> Str(<<"1","/","2","/","2","4">>),
               time |-> None,
               location |-> None,
               description |-> desc ]),
           involvedParties |-> Dict([
               claimant |-> None,
               thirdParties |-> List(<< Str(<<"B","o">>) >>),
               contactDetails |-> None ]),
           assetDetails |-> Dict([
               assetType |-> None,
               assetId |-> None,
               estimatedDamage |-> damage ]),
           claimType |-> ctype,
           attachments |-> None,
           initialEstimate |-> damage ])

Crash == Str(<<"c","r","a","s","h">>)
Property == Str(<<"p","r","o","p","e","r","t","y">>)

JsonValue(symbol) ==
    CASE symbol = "DOC_fast" -> Doc(Crash, Property, Float(500000))
      [] symbol = "DOC_standard" -> Doc(Crash, Property, Float(FAST_TRACK_THRESHOLD))
      [] symbol = "DOC_injury" -> Doc(Crash, Str(<<"I","n","j","u","r","y">>), Float(500000))
      [] symbol = "DOC_fraud" -> Doc(Str(<<"S","t","a","g","e","d">>), Property, Float(500000))
      [] symbol = "DOC_nulls" -> Doc(None, None, None)
      [] symbol = "DOC_blank" -> Doc(Str(<<" ">>), Property, Float(500000))
      [] symbol = "DOC_negative" -> Doc(Crash, Property, Float(0 - 500000))
      [] symbol = "DOC_nan" -> Doc(Crash, Property, NaN)
      [] symbol = "DOC_badleaf" -> Doc(Crash, Property, Str(<<"5","k">>))
      [] symbol = "DOC_nogroup" ->
            Dict([ policyInformation |-> Dict([policyNumber |-> Str(<<"P","1">>)]),
                   incidentInformation |-> Dict([description |-> Crash]),
                   assetDetails |-> Dict([estimatedDamage |-> Float(500000)]),
                   claimType |-> Property ])
      [] symbol = "DOC_nullgroup" ->
            Dict([ policyInformation |-> Dict([policyNumber |-> Str(<<"P","1">>)]),
                   incidentInformation |-> Dict([description |-> Crash]),
                   involvedParties |-> None,
                   assetDetails |-> None,
                   claimType |-> Property ])
      [] symbol = "DOC_sparse" ->
            Dict([ policyInformation |-> Dict([policyNumber |-> Str(<<"P","1">>)]),
                   incidentInformation |-> Dict([description |-> Crash]),
                   involvedParties |-> Dict(<<>>),
                   assetDetails |-> Dict([estimatedDamage |-> Float(500000)]),
                   note |-> Str(<<"x">>) ])
      [] symbol = "DOC_empty" -> Dict(<<>>)
      [] symbol = "DOC_list" -> List(<<>>)
      [] symbol = "DOC_null" -> None

DocSymbols ==
    { "DOC_fast", "DOC_standard", "DOC_injury", "DOC_fraud", "DOC_nulls",
      "DOC_blank", "DOC_negative", "DOC_nan", "DOC_badleaf", "DOC_nogroup",
      "DOC_nullgroup", "DOC_sparse", "DOC_empty", "DOC_list", "DOC_null" }

\* json.loads: whitespace around the one document is skipped; anything
\* else is a JSONDecodeError (ok = FALSE)
json_loads(text) ==
    LET body == strip(text)
    IN  IF Len(body) = 1 /\ body[1] \in DocSymbols
        THEN [ok |-> TRUE, value |-> JsonValue(body[1])]
        ELSE [ok |-> FALSE, value |-> None]

\* the backquote character, written BQ (a TLA+ string cannot hold one)
BQ == "BQ"
Backtick == ExactSet({BQ}, {})
\* line 123: the opening fence, three backquotes, (?:json)?, \s*, \n, at the start
FenceOpen ==
    Cat(<< Backtick, Backtick, Backtick,
           Opt(Cat(<< ExactSet({"j"}, {}), ExactSet({"s"}, {}),
                      ExactSet({"o"}, {}), ExactSet({"n"}, {}) >>)),
           Star(ExactSet({}, {"s"})), ExactSet({"\n"}, {}) >>)
\* line 124: the closing fence, \n, three backquotes, \s*, at the end
FenceClose ==
    Cat(<< ExactSet({"\n"}, {}), Backtick, Backtick, Backtick,
           Star(ExactSet({}, {"s"})), EndOfText >>)

\* re.sub(pattern, '', text) for a pattern anchored with ^
sub_at_start(pattern, text) ==
    LET ends == Ends(text, pattern, 1)
    IN  IF ends = <<>> THEN text ELSE SubSeq(text, ends[1].e, Len(text))

\* re.sub(pattern, '', text) for a pattern anchored with $
sub_at_end(pattern, text) ==
    LET m == search_from(pattern, text, 1)
    IN  IF m.found
        THEN SubSeq(text, 1, m.start - 1) \o SubSeq(text, m.end, Len(text))
        ELSE text

\* line 121: response_text.startswith(three backquotes)
starts_with_fence(text) == Len(text) >= 3 /\ SubSeq(text, 1, 3) = <<BQ, BQ, BQ>>

\* lines 118-127: strip, drop a markdown fence, parse
parse_response(response_text) ==
    LET stripped == strip(response_text)
        unfenced == IF starts_with_fence(stripped)
                    THEN sub_at_end(FenceClose, sub_at_start(FenceOpen, stripped))
                    ELSE stripped
    IN  json_loads(unfenced)

\* what model.generate_content(...) and response.text can do (lines
\* 108-118): raise (timeout, call failure, no text in the response) or give text
Fence == <<BQ, BQ, BQ>>
ResponseTexts ==
    { <<d>> : d \in DocSymbols } \cup
    { <<" ", "DOC_fast", "\n">>,
      Fence \o <<"j","s","o","n","\n", "DOC_fast", "\n">> \o Fence,
      Fence \o <<"\n", "DOC_nogroup", "\n">> \o Fence,
      Fence \o <<" ", "\n", "\n", "DOC_injury", "\n">> \o Fence \o <<"\n">>,
      Fence \o <<"j","s","o","n", "DOC_fast">> \o Fence,
      Fence \o <<"J","S","O","N","\n", "DOC_fast", "\n">> \o Fence,
      <<"S","u","r","e",":"," ", "DOC_fast">>,
      <<"DOC_fast", ",", "DOC_fast">>,
      <<>> }

ServiceOutcomes ==
    { [kind |-> "raise", why |-> w] : w \in {"timeout", "call_failed", "no_text"} }
    \cup { [kind |-> "text", text |-> r] : r \in ResponseTexts }

----------------------------------------------------------------------------
(* app/models.py: the ExtractedFields constructor, called on extracted_dict *)

StrLeaf(v) == v = None \/ v.t = "str"
FloatLeaf(v) == v = None \/ v.t = "float"
StrListLeaf(v) ==
    v = None \/ (v.t = "list" /\ \A i \in 1..Len(v.items) : v.items[i].t = "str")

\* d[key] when the key is there and the field's default, None, when it is not
field(d, key) == IF key \in DOMAIN d.d THEN d.d[key] ELSE None

\* a required group: the key is there and holds an object
group_valid(d, key) == key \in DOMAIN d.d /\ d.d[key].t = "dict"

\* the validation of lines 13-115: TRUE when the constructor returns,
\* FALSE when it raises (TypeError for a non-mapping, ValidationError else)
model_valid(d) ==
    /\ d.t = "dict"
    /\ group_valid(d, "policyInformation")
    /\ group_valid(d, "incidentInformation")
    /\ group_valid(d, "involvedParties")
    /\ group_valid(d, "assetDetails")
    /\ \A k \in {"policyNumber", "policyholderName", "effectiveDates"} :
          StrLeaf(field(d.d.policyInformation, k))
    /\ \A k \in {"date", "time", "location", "description"} :
          StrLeaf(field(d.d.incidentInformation, k))
    /\ \A k \in {"claimant", "contactDetails"} :
          StrLeaf(field(d.d.involvedParties, k))
    /\ StrListLeaf(field(d.d.involvedParties, "thirdParties"))
    /\ \A k \in {"assetType", "assetId"} : StrLeaf(field(d.d.assetDetails, k))
    /\ FloatLeaf(field(d.d.assetDetails, "estimatedDamage"))
    /\ StrLeaf(field(d, "claimType"))
    /\ StrListLeaf(field(d, "attachments"))
    /\ FloatLeaf(field(d, "initialEstimate"))

\* the instance the constructor builds from a valid dict
model_of(d) ==
    [ policyInformation |->
        [k \in {"policyNumber", "policyholderName", "effectiveDates"} |->
            field(d.d.policyInformation, k)],
      incidentInformation |->
        [k \in {"date", "time", "location", "description"} |->
            field(d.d.incidentInformation, k)],
      involvedParties |->
        [k \in {"claimant", "thirdParties", "contactDetails"} |->
            field(d.d.involvedParties, k)],
      assetDetails |->
        [k \in {"assetType", "assetId", "estimatedDamage"} |->
            field(d.d.assetDetails, k)],
      claimType |-> field(d, "claimType"),
      attachments |-> field(d, "attachments"),
      initialEstimate |-> field(d, "initialEstimate") ]

----------------------------------------------------------------------------
(* app/models.py: the ExtractedFields instances the router is run on *)

RECURSIVE blank(_)
blank(n) == IF n = 0 THEN <<>> ELSE <<" ">> \o blank(n - 1)

\* whitespace-only strings, the empty string among them
Blanks == {Str(blank(n)) : n \in 0..MaxBlank}

PolicyNumbers == {None, Str(<<"P","1">>)} \cup Blanks
PolicyholderNames ==
    {None, Str(<<"\t">>), Str(<<"A","l">>), Str(<<"f","r","a","u","d">>)}
IncidentDates == {None, Str(<<"\n", " ">>), Str(<<"1","/","2">>)}
Descriptions ==
    { None, Str(<<>>), Str(<<" ">>),
      Str(<<"d","e","n","t">>),
      Str(<<"s","t","a","g","e">>),
      Str(<<"a"," ","f","r","a","u","d">>),
      Str(<<"S","T","A","G","E","D","!">>),
      Str(<<"I","n","C","o","n","s","i","s","t","e","n","t">>) }
ClaimTypes ==
    { None, Str(<<>>),
      Str(<<"i","n","j","u","r","y">>),
      Str(<<"I","N","J","U","R","Y">>),
      Str(<<"i","n","j","u","r","y"," ">>),
      Str(<<"p","r","o","p","e","r","t","y">>),
      Str(<<"s","t","a","g","e","d">>) }
Damages ==
    {None, NaN, Float(0), Float(0 - 1)} \cup
    {Float(FAST_TRACK_THRESHOLD + d) : d \in (0 - MaxDelta)..MaxDelta}
Locations == {None, Str(<<"f","r","a","u","d">>)}

ExtractedFields ==
    { [ policyInformation |->
            [policyNumber |-> pn, policyholderName |-> ph, effectiveDates |-> None],
        incidentInformation |->
            [date |-> dt, time |-> None, location |-> loc, description |-> ds],
        involvedParties |->
            [claimant |-> loc, thirdParties |-> None, contactDetails |-> None],
        assetDetails |->
            [assetType |-> loc, assetId |-> loc, estimatedDamage |-> dm],
        claimType |-> ct,
        attachments |-> None,
        initialEstimate |-> None ] :
      pn \in PolicyNumbers, ph \in PolicyholderNames, dt \in IncidentDates,
      loc \in Locations, ds \in Descriptions, ct \in ClaimTypes, dm \in Damages }

\* the lists a caller passes as  missing : the validator's own result, or a
\* list made by hand (empty, one path, two paths out of declaration order)
MissingArgs(computed) ==
    { computed, <<>>,
      <<"policyInformation.policyNumber">>,
      <<"claimType", "policyInformation.policyNumber">> }

----------------------------------------------------------------------------
(* The router specification: a caller validates a claim and routes it *)

RouterInit ==
    /\ pc = "start"
    /\ extracted \in ExtractedFields
    /\ missing = <<>>
    /\ missingArg = <<>>
    /\ route = ""
    /\ reasoning = <<>>
    /\ env_key = None
    /\ genai_key = None
    /\ caller = "test"
    /\ raw_text = <<>>
    /\ response = <<>>
    /\ gemini = "untried"
    /\ extracted_dict = None
    /\ serviceCalls = 0
    /\ heuristicRuns = 0
    /\ outcome = [kind |-> "none"]
    /\ file = None
    /\ file_type = <<>>
    /\ calls = <<>>
    /\ genai_writer = 0
    /\ start_key = env_key
    /\ request = None
    /\ temp_file_path = None
    /\ disk = {}

\* the validator clearing, in the instance it was given, the policy number
\* it found blank
IdentifyMissingFields_clearing ==
    /\ pc = "start"
    /\ missing' = identify_missing_fields(extracted)
    /\ extracted' =
         IF is_missing_value(extracted.policyInformation.policyNumber)
         THEN [extracted EXCEPT !.policyInformation.policyNumber = None]
         ELSE extracted
    /\ pc' = "validated"
    /\ UNCHANGED <<missingArg, route, reasoning, extractVars>>
    /\ UNCHANGED <<parserVars, threadVars, historyVars, uploadVars>>

\* missing = identify_missing_fields(claim)
IdentifyMissingFields ==
    /\ pc = "start"
    /\ missing' = identify_missing_fields(extracted)
    /\ pc' = "validated"
    /\ UNCHANGED <<extracted, missingArg, route, reasoning, extractVars>>
    /\ UNCHANGED <<parserVars, threadVars, historyVars, uploadVars>>

\* route, reasoning = determine_route(claim, m)
DetermineRoute ==
    /\ pc = "validated"
    /\ \E m \in MissingArgs(missing) :
        LET r == determine_route(extracted, m)
        IN  /\ missingArg' = m
            /\ route' = r.route
            /\ reasoning' = r.reasoning
    /\ pc' = "routed"
    /\ UNCHANGED <<extracted, missing, extractVars>>
    /\ UNCHANGED <<parserVars, threadVars, historyVars, uploadVars>>

\* determine_route(claim, m) called once more with the same arguments; the
\* function reads its arguments and the module constants and writes nothing
DetermineRouteAgain ==
    /\ pc = "routed"
    /\ LET r == determine_route(extracted, missingArg)
       IN  /\ route' = r.route
           /\ reasoning' = r.reasoning
    /\ pc' = "rerouted"
    /\ UNCHANGED <<extracted, missing, missingArg, extractVars>>
    /\ UNCHANGED <<parserVars, threadVars, historyVars, uploadVars>>

RouterNext == IdentifyMissingFields \/ DetermineRoute \/ DetermineRouteAgain

SpecRouter == RouterInit /\ [][RouterNext]_vars

----------------------------------------------------------------------------
(* app/extractor.py: extract_fields, and app/main.py: process_claim on text *)

\* a fallback that does not run the patterns on the text: every leaf None
fallback_result_skeleton(text) == extract_fields_heuristic(<<>>)

\* raise exc  and  return text
Raise(exc) == [kind |-> "raise", exc |-> exc]
Return(text) == [kind |-> "return", text |-> text]

\* an argument of extract_fields that is not a str (None, say), written as
\* a marker because texts here are sequences of characters
NotAString == <<"not a str">>
is_str(text) == text # NotAString

\* line 183 and the like: re.search(pattern, text, ...) raises TypeError
\* when text is not a string, on the first pattern
heuristic_raises(text) == ~is_str(text)

\* the heuristic's exception passed on as it is
wrap_heuristic_failure_passthrough(exc) == Raise(exc)

\* lines 344-345: except Exception as e: raise ExtractionError(...)
wrap_heuristic_failure(exc) == Raise("ExtractionError")

\* main.py lines 199-217: what process_claim answers when the extraction
\* stage raised exc
extraction_failure_response(exc) ==
    IF exc = "ExtractionError"
    THEN [kind |-> "error", status |-> 503, error |-> "ExtractionError"]
    ELSE [kind |-> "error", status |-> 500, error |-> "ExtractionError"]

\* line 343: return extract_fields_heuristic(text)
fallback_result(text) == extract_fields_heuristic(text)

\* the documents the service is run on
T_policy == <<"P","o","l","i","c","y",":"," ","A","1","\n">>
T_insured == <<"I","n","s","u","r","e","d",":"," ","A","l","\n">>
T_date == <<"1","/","2","/","2","4","\n">>
T_crash == <<"D","e","s","c","r","i","p","t","i","o","n",":"," ","c","r","a","s","h","\n">>
T_staged == <<"D","e","s","c","r","i","p","t","i","o","n",":"," ","S","t","a","g","e","d","\n">>
T_property == <<"C","l","a","i","m"," ","T","y","p","e",":"," ","P","r","o","p","e","r","t","y","\n">>
T_injury == <<"C","l","a","i","m"," ","T","y","p","e",":"," ","I","n","j","u","r","y","\n">>
T_low == <<"D","a","m","a","g","e",":"," ","$","5",",","0","0","0",".","0","0">>
T_threshold == <<"D","a","m","a","g","e",":"," ","2","5","0","0","0">>
T_locations == <<"L","o","c","a","t","i","o","n",":"," ","h","\n",
                 "I","n","c","i","d","e","n","t"," ",
                 "L","o","c","a","t","i","o","n",":"," ","m">>
T_unparsed == <<"D","a","m","a","g","e",":"," ",",","\n",
                "L","o","s","s"," ","A","m","o","u","n","t",":"," ","5">>

Texts ==
    { T_policy \o T_insured \o T_date \o T_crash \o T_property \o T_low,
      T_policy \o T_date \o T_crash \o T_property \o T_low,
      T_policy \o T_insured \o T_date \o T_crash \o T_property \o T_threshold,
      T_policy \o T_insured \o T_date \o T_crash \o T_injury \o T_low,
      T_policy \o T_insured \o T_date \o T_staged \o T_property \o T_low,
      <<"L","o","c","a","t","i","o","n",":"," "," ">>,
      <<"D","a","m","a","g","e",":"," ",",">>,
      T_locations,
      T_unparsed,
      <<"h","i">> }
    \cup { blank(n) : n \in 0..MaxBlank }

EnvKeys == {None, Str(<<>>), Str(<<"k">>)}

\* line 183: not raw_text or not raw_text.strip()
is_empty_text(text) == text = <<>> \/ strip(text) = <<>>

HTTPError(status_code, error) ==
    [kind |-> "error", status |-> status_code, error |-> error]

Init ==
    /\ pc = "idle"
    /\ env_key \in EnvKeys
    /\ genai_key = None
    /\ caller = ""
    /\ raw_text = <<>>
    /\ response = <<>>
    /\ gemini = "untried"
    /\ extracted_dict = None
    /\ serviceCalls = 0
    /\ heuristicRuns = 0
    /\ outcome = [kind |-> "none"]
    /\ extracted = None
    /\ missing = <<>>
    /\ missingArg = <<>>
    /\ route = ""
    /\ reasoning = <<>>
    /\ file = None
    /\ file_type = <<>>
    /\ calls = <<>>
    /\ genai_writer = 0
    /\ start_key = env_key
    /\ request = None
    /\ temp_file_path = None
    /\ disk = {}

\* what a new call starts from
NewCall(who, text) ==
    /\ caller' = who
    /\ raw_text' = text
    /\ response' = <<>>
    /\ gemini' = "untried"
    /\ extracted_dict' = None
    /\ serviceCalls' = 0
    /\ heuristicRuns' = 0
    /\ extracted' = None
    /\ missing' = <<>>
    /\ missingArg' = <<>>
    /\ route' = ""
    /\ reasoning' = <<>>
    /\ UNCHANGED <<env_key, genai_key>>
    /\ UNCHANGED <<parserVars, threadVars, historyVars>>

\* main.py lines 253-259, run when process_claim is left: the temporary file
\* is unlinked when temp_file_path names one that exists, and an error of
\* os.unlink is passed over
finally(leaving, path, files) ==
    IF leaving /\ path # None /\ path \in files
    THEN \E unlinked \in BOOLEAN :
            disk' = IF unlinked THEN files \ {path} ELSE files
    ELSE disk' = files

\* the environment changes the credential between two calls
SetEnv ==
    /\ pc = "idle"
    /\ env_key' \in EnvKeys \ {env_key}
    /\ UNCHANGED <<pc, routerVars, genai_key, caller, raw_text, response, gemini,
                   extracted_dict, serviceCalls, heuristicRuns, outcome>>
    /\ UNCHANGED <<parserVars, threadVars, historyVars, uploadVars>>

\* main.py lines 177-190: process_claim(file=None, text=t)
ProcessClaimText ==
    /\ pc = "idle"
    /\ \E t \in Texts :
        /\ NewCall("process_claim", t)
        /\ IF is_empty_text(t)
           THEN outcome' = HTTPError(400, "EmptyText") /\ pc' = "done"
           ELSE outcome' = [kind |-> "none"] /\ pc' = "extract"
    /\ request' = None
    /\ temp_file_path' = None
    /\ UNCHANGED disk

\* extract_fields(t) called on its own, as the tests do
CallExtractFields ==
    /\ pc = "idle"
    /\ \E t \in Texts \cup {NotAString} :
        /\ NewCall("direct", t)
        /\ outcome' = [kind |-> "none"]
        /\ pc' = "extract"
    /\ UNCHANGED uploadVars

\* extractor.py lines 59-61: the key is read and the library configured
ConfigureGemini ==
    /\ pc = "extract"
    /\ LET model == configure_gemini(env_key)
       IN  IF model = None
           THEN gemini' = "no_key" /\ pc' = "fallback" /\ UNCHANGED genai_key
           ELSE genai_key' = env_key /\ pc' = "configured" /\ UNCHANGED gemini
    /\ UNCHANGED <<routerVars, env_key, caller, raw_text, response,
                   extracted_dict, serviceCalls, heuristicRuns, outcome>>
    /\ UNCHANGED <<parserVars, threadVars, historyVars, uploadVars>>

\* extractor.py lines 106-118 and 132-133: the one call of the service
GenerateContent ==
    /\ pc = "configured"
    /\ serviceCalls' = serviceCalls + 1
    /\ \E o \in ServiceOutcomes :
        IF o.kind = "raise"
        THEN gemini' = o.why /\ pc' = "fallback" /\ UNCHANGED response
        ELSE response' = o.text /\ pc' = "responded" /\ UNCHANGED gemini
    /\ UNCHANGED <<routerVars, env_key, genai_key, caller, raw_text,
                   extracted_dict, heuristicRuns, outcome>>
    /\ UNCHANGED <<parserVars, threadVars, historyVars, uploadVars>>

\* extractor.py lines 118-131 and extract_fields line 336
ParseResponse ==
    /\ pc = "responded"
    /\ LET parsed == parse_response(response)
       IN  IF parsed.ok
           THEN extracted_dict' = parsed.value /\ gemini' = "ok" /\ pc' = "extracted"
           ELSE gemini' = "bad_json" /\ pc' = "fallback" /\ UNCHANGED extracted_dict
    /\ UNCHANGED <<routerVars, env_key, genai_key, caller, raw_text, response,
                   serviceCalls, heuristicRuns, outcome>>
    /\ UNCHANGED <<parserVars, threadVars, historyVars, uploadVars>>

\* extractor.py lines 337-345: GeminiAPIError caught, the heuristic runs; an
\* exception of the heuristic leaves extract_fields as ExtractionError, which
\* process_claim answers (main.py lines 199-208)
HeuristicFallback ==
    /\ pc = "fallback"
    /\ heuristicRuns' = heuristicRuns + 1
    /\ IF heuristic_raises(raw_text)
       THEN /\ UNCHANGED extracted_dict
            /\ IF caller = "process_claim"
               THEN /\ outcome' = extraction_failure_response(
                                      wrap_heuristic_failure("TypeError").exc)
                    /\ pc' = "done"
               ELSE /\ outcome' = wrap_heuristic_failure("TypeError")
                    /\ pc' = "raised"
       ELSE /\ extracted_dict' = fallback_result(raw_text)
            /\ pc' = "extracted"
            /\ UNCHANGED outcome
    /\ finally(pc' = "done", temp_file_path, disk)
    /\ UNCHANGED <<routerVars, env_key, genai_key, caller, raw_text, response,
                   gemini, serviceCalls>>
    /\ UNCHANGED <<parserVars, threadVars, historyVars, request, temp_file_path>>

\* main.py lines 194-217: ExtractedFields is built from the dict; a failure
\* is caught by  except Exception  and answered with status 500
BuildModel ==
    /\ pc = "extracted"
    /\ caller = "process_claim"
    /\ IF model_valid(extracted_dict)
       THEN extracted' = model_of(extracted_dict) /\ pc' = "built" /\ UNCHANGED outcome
       ELSE outcome' = extraction_failure_response("ValidationError") /\ pc' = "done"
            /\ UNCHANGED extracted
    /\ finally(pc' = "done", temp_file_path, disk)
    /\ UNCHANGED <<missing, missingArg, route, reasoning, env_key, genai_key,
                   caller, raw_text, response, gemini, extracted_dict,
                   serviceCalls, heuristicRuns>>
    /\ UNCHANGED <<parserVars, threadVars, historyVars, request, temp_file_path>>

\* main.py lines 219-236: validate, route, build the response
ValidateAndRoute ==
    /\ pc = "built"
    /\ LET missing_fields == identify_missing_fields(extracted)
           decision == determine_route(extracted, missing_fields)
       IN  /\ missing' = missing_fields
           /\ missingArg' = missing_fields
           /\ route' = decision.route
           /\ reasoning' = decision.reasoning
    /\ outcome' = [kind |-> "response"]
    /\ pc' = "done"
    /\ finally(TRUE, temp_file_path, disk)
    /\ UNCHANGED <<extracted, env_key, genai_key, caller, raw_text, response,
                   gemini, extracted_dict, serviceCalls, heuristicRuns>>
    /\ UNCHANGED <<parserVars, threadVars, historyVars, request, temp_file_path>>

\* the call is over and its locals are gone; the process waits for the next
NextCall ==
    /\ \/ pc = "done"
       \/ (pc \in {"extracted", "raised"} /\ caller = "direct")
    /\ pc' = "idle"
    /\ NewCall("", <<>>)
    /\ outcome' = [kind |-> "none"]
    /\ request' = None
    /\ temp_file_path' = None
    /\ UNCHANGED disk

Next ==
    \/ SetEnv
    \/ ProcessClaimText
    \/ CallExtractFields
    \/ ConfigureGemini
    \/ GenerateContent
    \/ ParseResponse
    \/ HeuristicFallback
    \/ BuildModel
    \/ ValidateAndRoute
    \/ NextCall

Spec == Init /\ [][Next]_vars

----------------------------------------------------------------------------
(* What the claims speak of, stated on the fields themselves *)

Routes == {"Investigation", "ManualReview", "SpecialistQueue", "FastTrack", "Standard"}

\* word occurs in s at offset off, letter case ignored
OccursAt(s, word, off) == \A j \in 1..Len(word) : LowerChar(s[off + j]) = word[j]

\* the description is present and holds 'fraud', 'inconsistent' or 'staged'
HasFraudKeyword(e) ==
    LET d == e.incidentInformation.description
    IN  /\ d.t = "str"
        /\ \E word \in { <<"f","r","a","u","d">>,
                         <<"i","n","c","o","n","s","i","s","t","e","n","t">>,
                         <<"s","t","a","g","e","d">> } :
              \E off \in 0..(Len(d.s) - Len(word)) : OccursAt(d.s, word, off)

\* the six mandatory leaves, in declaration order
MandatoryLeaf(e, i) ==
    CASE i = 1 -> e.policyInformation.policyNumber
      [] i = 2 -> e.policyInformation.policyholderName
      [] i = 3 -> e.incidentInformation.date
      [] i = 4 -> e.incidentInformation.description
      [] i = 5 -> e.claimType
      [] i = 6 -> e.assetDetails.estimatedDamage

MandatoryPath(i) ==
    CASE i = 1 -> "policyInformation.policyNumber"
      [] i = 2 -> "policyInformation.policyholderName"
      [] i = 3 -> "incidentInformation.date"
      [] i = 4 -> "incidentInformation.description"
      [] i = 5 -> "claimType"
      [] i = 6 -> "assetDetails.estimatedDamage"

\* absent, or a string with nothing but whitespace in it
AbsentOrBlank(v) ==
    \/ v.t = "none"
    \/ (v.t = "str" /\ \A i \in 1..Len(v.s) : v.s[i] \in Whitespace)

Complete(e) == \A i \in 1..6 : ~AbsentOrBlank(MandatoryLeaf(e, i))

\* claimType equals 'injury', letter case ignored
InjuryType(e) ==
    /\ e.claimType.t = "str"
    /\ Len(e.claimType.s) = 6
    /\ OccursAt(e.claimType.s, <<"i","n","j","u","r","y">>, 0)

\* estimatedDamage is present and strictly below 25000.00
DamageBelowThreshold(e) ==
    LET d == e.assetDetails.estimatedDamage
    IN  d.t = "float" /\ ~d.nan /\ d.cents < 2500000

Validated == pc \in {"validated", "routed"}
Routed == pc = "routed"

----------------------------------------------------------------------------
(* Claims about the routing classifier and the completeness validator,    *)
(* checked under SpecRouter                                                *)

\* C1: a description that holds a fraud keyword, in any letter case, is
\* routed to Investigation whatever the other fields and the missing list are.
C1_FraudAlwaysInvestigation ==
    (Routed /\ HasFraudKeyword(extracted)) => route = "Investigation"

\* reached: an upper-case keyword, a missing policy number, a non-empty list
C1_Witness ==
    /\ Routed
    /\ extracted.incidentInformation.description = Str(<<"S","T","A","G","E","D","!">>)
    /\ extracted.policyInformation.policyNumber = None
    /\ missingArg # <<>>
    /\ route = "Investigation"

\* C2: with no fraud keyword and a mandatory field absent or blank, routing
\* with the validator's own list gives ManualReview whatever claimType and
\* estimatedDamage are; the all-absent claim reports all six paths.
C2_MissingGivesManualReview ==
    /\ (Routed /\ ~HasFraudKeyword(extracted) /\ ~Complete(extracted)
          /\ missingArg = missing)
        => route = "ManualReview"
    /\ (Validated /\ \A i \in 1..6 : MandatoryLeaf(extracted, i) = None)
        => missing = <<MandatoryPath(1), MandatoryPath(2), MandatoryPath(3),
                       MandatoryPath(4), MandatoryPath(5), MandatoryPath(6)>>

\* reached: an injury claim with low damage whose policy number is blank
C2_Witness ==
    /\ Routed
    /\ missingArg = missing
    /\ extracted.policyInformation.policyNumber = Str(<<>>)
    /\ extracted.claimType = Str(<<"i","n","j","u","r","y">>)
    /\ extracted.assetDetails.estimatedDamage = Float(0)
    /\ ~HasFraudKeyword(extracted)
    /\ route = "ManualReview"

\* C3: a complete claim without fraud keyword whose claimType is 'injury' in
\* any letter case goes to SpecialistQueue for every damage amount.
C3_InjuryGivesSpecialistQueue ==
    (Routed /\ Complete(extracted) /\ ~HasFraudKeyword(extracted)
        /\ InjuryType(extracted) /\ missingArg = <<>>)
    => route = "SpecialistQueue"

\* reached: 'INJURY' with a damage below the threshold
C3_Witness ==
    /\ Routed
    /\ Complete(extracted)
    /\ missingArg = <<>>
    /\ extracted.claimType = Str(<<"I","N","J","U","R","Y">>)
    /\ DamageBelowThreshold(extracted)
    /\ route = "SpecialistQueue"

\* C4: a complete claim without fraud keyword and not of type injury is
\* FastTrack exactly when its damage is strictly below 25000.00 and Standard
\* otherwise; 25000.00 gives Standard and 24999.99 gives FastTrack.
C4_ThresholdIsStrict ==
    (Routed /\ Complete(extracted) /\ ~HasFraudKeyword(extracted)
        /\ ~InjuryType(extracted) /\ missingArg = <<>>)
    => /\ route = "FastTrack" <=> DamageBelowThreshold(extracted)
       /\ route = "Standard" <=> ~DamageBelowThreshold(extracted)
       /\ extracted.assetDetails.estimatedDamage = Float(2500000) => route = "Standard"
       /\ extracted.assetDetails.estimatedDamage = Float(2499999) => route = "FastTrack"

\* reached: the boundary amount itself, routed Standard
C4_Witness ==
    /\ Routed
    /\ Complete(extracted)
    /\ ~HasFraudKeyword(extracted)
    /\ ~InjuryType(extracted)
    /\ missingArg = <<>>
    /\ extracted.assetDetails.estimatedDamage = Float(2500000)
    /\ route = "Standard"

\* the route of the first guard that holds, in the fixed order
FirstGuardRoute(e, m) ==
    CASE HasFraudKeyword(e) -> "Investigation"
      [] ~HasFraudKeyword(e) /\ m # <<>> -> "ManualReview"
      [] ~HasFraudKeyword(e) /\ m = <<>> /\ InjuryType(e) -> "SpecialistQueue"
      [] ~HasFraudKeyword(e) /\ m = <<>> /\ ~InjuryType(e)
            /\ DamageBelowThreshold(e) -> "FastTrack"
      [] OTHER -> "Standard"

\* C5: determine_route returns one route of the closed enumeration for every
\* claim and every list, the route of the first guard that holds in the order
\* fraud keyword, non-empty list, injury type, damage below threshold, default.
C5_TotalFirstGuardWins ==
    Routed => /\ route \in Routes
              /\ route = FirstGuardRoute(extracted, missingArg)
              /\ reasoning # <<>>

\* reached: all four guards hold at once and the first one decides
C5_Witness ==
    /\ Routed
    /\ HasFraudKeyword(extracted)
    /\ missingArg # <<>>
    /\ InjuryType(extracted)
    /\ DamageBelowThreshold(extracted)
    /\ route = "Investigation"

\* what C6 says of a claim routed FastTrack
FastTrackEligible(e) ==
    /\ Complete(e)
    /\ ~HasFraudKeyword(e)
    /\ ~InjuryType(e)
    /\ DamageBelowThreshold(e)

\* C6 as stated: FastTrack is returned only for complete, fraud-free,
\* non-injury claims with a damage below 25000.00, for every list passed.
C6_Original_FastTrackOnlyIfEligible ==
    (Routed /\ route = "FastTrack") => FastTrackEligible(extracted)

\* C6 as amended: the same, when determine_route is called with the list
\* identify_missing_fields computes for the same fields.
C6_FastTrackOnlyIfEligible_ValidatorList ==
    (Routed /\ route = "FastTrack" /\ missingArg = missing)
    => FastTrackEligible(extracted)

\* reached: FastTrack returned on the validator's list
C6_Witness ==
    /\ Routed
    /\ route = "FastTrack"
    /\ missingArg = missing
    /\ extracted.assetDetails.estimatedDamage = Float(2499999)

\* position of a path in the declaration order (0 when it is none of the six)
DeclIndex(path) ==
    IF \E i \in 1..6 : MandatoryPath(i) = path
    THEN CHOOSE i \in 1..6 : MandatoryPath(i) = path
    ELSE 0

\* C7: the validator's list is a subsequence of the six-path declaration
\* order: only the six paths, none twice, in declaration order.
C7_MissingInDeclarationOrder ==
    Validated =>
        /\ \A k \in 1..Len(missing) : DeclIndex(missing[k]) # 0
        /\ \A k \in 1..(Len(missing) - 1) :
              DeclIndex(missing[k]) < DeclIndex(missing[k + 1])

\* reached: the first and the last path missing, the ones between present
C7_Witness ==
    /\ Validated
    /\ missing = <<MandatoryPath(1), MandatoryPath(6)>>

\* C8: a path is reported exactly when its value is absent or a string that
\* is empty after trimming; a numeric damage, 0 included, is never reported;
\* a claim with six non-blank values gives the empty list.
C8_MissingIffAbsentOrBlank ==
    Validated =>
        /\ \A i \in 1..6 :
              (\E k \in 1..Len(missing) : missing[k] = MandatoryPath(i))
              <=> AbsentOrBlank(MandatoryLeaf(extracted, i))
        /\ extracted.assetDetails.estimatedDamage.t = "float"
              => \A k \in 1..Len(missing) : missing[k] # MandatoryPath(6)
        /\ Complete(extracted) => missing = <<>>

\* reached: a whitespace-only name is reported, a damage of 0 is not
C8_Witness ==
    /\ Validated
    /\ extracted.policyInformation.policyholderName = Str(<<"\t">>)
    /\ extracted.assetDetails.estimatedDamage = Float(0)
    /\ extracted.policyInformation.policyNumber = Str(<<"P","1">>)
    /\ missing = <<MandatoryPath(2)>>

----------------------------------------------------------------------------
(* extract_fields has returned: the call stands at its return value *)

Returned == pc = "extracted"

\* the reasons extract_fields_with_gemini raises GeminiAPIError
GeminiFailures == {"no_key", "timeout", "call_failed", "no_text", "bad_json"}

\* C9: extract_fields tries the structured-model extractor first.  When it
\* succeeds, the value returned is exactly the value of the JSON document in
\* the service's answer and the heuristic has not run.  When it fails, for a
\* missing credential (the service is then never called), a timeout, a call
\* failure, an answer without text or an answer that does not parse, the
\* value returned is exactly extract_fields_heuristic of the same text.  The
\* service is called at most once, so the result is never a merge.
C9_GeminiFirstElseHeuristicOnly ==
    Returned =>
        /\ gemini \in {"ok"} \cup GeminiFailures
        /\ serviceCalls = (IF gemini = "no_key" THEN 0 ELSE 1)
        /\ gemini = "ok" =>
              /\ heuristicRuns = 0
              /\ \E i \in 1..Len(response) :
                    /\ response[i] \in DocSymbols
                    /\ extracted_dict = JsonValue(response[i])
        /\ gemini \in GeminiFailures =>
              /\ heuristicRuns = 1
              /\ extracted_dict = extract_fields_heuristic(raw_text)

\* the service answered, the answer did not parse, and the value returned
\* holds what the patterns found in the text
C9_Witness ==
    /\ Returned
    /\ gemini = "bad_json"
    /\ response # <<>>
    /\ extracted_dict = extract_fields_heuristic(raw_text)
    /\ extracted_dict.d.policyInformation.d.policyNumber = Str(<<"A","1">>)
    /\ extracted_dict.d.assetDetails.d.estimatedDamage = Float(500000)

\* C10: every value extract_fields returns is a usable ExtractedFields: the
\* four groups are present as objects and the ExtractedFields constructor
\* accepts the value.
C10_ReturnedValueIsUsable ==
    Returned => model_valid(extracted_dict)

----------------------------------------------------------------------------
(* process_claim has answered a request that carried text *)

Answered == pc = "done" /\ caller = "process_claim"

\* C11: for every non-blank text, process_claim either returns a response
\* (extractedFields, missingFields, recommendedRoute, reasoning) or fails
\* with the extraction failure of both strategies being unusable (status
\* 503); no other failure reaches the caller.
C11_OnlyExtractionFailureVisible ==
    (Answered /\ ~is_empty_text(raw_text)) =>
        \/ outcome.kind = "response" /\ route \in Routes
        \/ outcome.kind = "error" /\ outcome.status = 503

----------------------------------------------------------------------------
(* The Pattern Extractor's output *)

\* extract_fields_heuristic has run on raw_text and extract_fields returned it
HeuristicReturned == Returned /\ heuristicRuns = 1

GroupKeys(group) ==
    CASE group = "policyInformation" ->
            {"policyNumber", "policyholderName", "effectiveDates"}
      [] group = "incidentInformation" -> {"date", "time", "location", "description"}
      [] group = "involvedParties" -> {"claimant", "thirdParties", "contactDetails"}
      [] group = "assetDetails" -> {"assetType", "assetId", "estimatedDamage"}

Groups == {"policyInformation", "incidentInformation", "involvedParties", "assetDetails"}
TopLeaves == {"claimType", "attachments", "initialEstimate"}

AbsentOrValued(v) == v = None \/ v.t \in {"str", "float", "list"}

\* the sixteen leaves of a fully structured dict
Leaves(d) ==
    UNION {{d.d[g].d[k] : k \in GroupKeys(g)} : g \in Groups}
    \cup {d.d[k] : k \in TopLeaves}

FullyStructured(d) ==
    /\ d.t = "dict"
    /\ DOMAIN d.d = Groups \cup TopLeaves
    /\ \A g \in Groups : d.d[g].t = "dict" /\ DOMAIN d.d[g].d = GroupKeys(g)
    /\ \A v \in Leaves(d) : AbsentOrValued(v)

\* C12: for every input string, the empty one included, the result of
\* extract_fields_heuristic has the four groups and all sixteen leaf keys,
\* every leaf being None or a value (never an error that was raised); on the
\* empty string every leaf is None.
C12_HeuristicTotalAndStructured ==
    HeuristicReturned =>
        /\ FullyStructured(extracted_dict)
        /\ raw_text = <<>> => \A v \in Leaves(extracted_dict) : v = None

\* the heuristic has run on the empty string
C12_Witness ==
    /\ HeuristicReturned
    /\ raw_text = <<>>
    /\ FullyStructured(extracted_dict)
    /\ Leaves(extracted_dict) = {None}

\* C13: every string leaf extract_fields_heuristic gives is None or is
\* non-empty after trimming whitespace.
C13_HeuristicStringsNonBlank ==
    HeuristicReturned =>
        \A v \in Leaves(extracted_dict) :
            (v # None /\ v.t = "str") => strip(v.s) # <<>>

----------------------------------------------------------------------------
(* The ExtractedFields handed to the validator and the classifier *)

\* process_claim holds the ExtractedFields it built from extract_fields' value
Built == pc = "built"

AbsentOrNonNegative(v) == v = None \/ (~v.nan /\ v.cents >= 0)

\* C14: in every ExtractedFields handed to the validator and the classifier,
\* estimatedDamage and initialEstimate are each None or non-negative,
\* whichever strategy produced them.
C14_NumericLeavesNonNegative ==
    Built =>
        /\ AbsentOrNonNegative(extracted.assetDetails.estimatedDamage)
        /\ AbsentOrNonNegative(extracted.initialEstimate)

----------------------------------------------------------------------------
(* The credential over the life of the process *)

\* C15: the credential is read once at process start: when it is absent
\* then, no later call attempts the external service and every call falls
\* back, whatever the environment becomes between calls.
C15_AbsentAtStartNeverCalls ==
    no_api_key(start_key) =>
        (serviceCalls = 0 /\ gemini \in {"untried", "no_key"})

----------------------------------------------------------------------------
(* The classifier called twice *)

----------------------------------------------------------------------------
(* app/parser.py *)

\* str.strip(chars)
strip_chars(s, chars) ==
    LET keep == {i \in 1..Len(s) : s[i] \notin chars}
    IN  IF keep = {} THEN <<>> ELSE SubSeq(s, SetMin(keep), SetMax(keep))

\* line 125: file_type.lower().strip('.')
normalize_file_type(ft) == strip_chars(lower(ft), {"."})

\* A file's bytes: an ASCII byte is written as its character; E9, C3 and A9
\* are the bytes of those values.  In UTF-8, C3 A9 is the letter e-acute,
\* E9 leads a three-byte sequence and A9 is a continuation byte; in latin-1
\* every byte is a character.
RECURSIVE decode_utf8(_, _)
decode_utf8(bytes, i) ==
    IF i > Len(bytes) THEN [ok |-> TRUE, text |-> <<>>]
    ELSE LET n == CASE bytes[i] = "C3" -> 2
                    [] bytes[i] = "E9" -> 3
                    [] bytes[i] = "A9" -> 0
                    [] OTHER -> 1
             wellformed == /\ n > 0
                           /\ i + n - 1 <= Len(bytes)
                           /\ \A j \in 1..(n - 1) : bytes[i + j] = "A9"
             char == CASE n = 2 -> "e_acute" [] n = 3 -> "U+9A69" [] OTHER -> bytes[i]
             rest == decode_utf8(bytes, i + n)
         IN  IF wellformed /\ rest.ok
             THEN [ok |-> TRUE, text |-> <<char>> \o rest.text]
             ELSE [ok |-> FALSE, text |-> <<>>]

decode_latin1(bytes) ==
    [i \in 1..Len(bytes) |->
        CASE bytes[i] = "E9" -> "e_acute"
          [] bytes[i] = "C3" -> "A_tilde"
          [] bytes[i] = "A9" -> "copyright"
          [] OTHER -> bytes[i]]

\* open(..., 'r') reads with universal newlines: \r\n and \r become \n
RECURSIVE universal_newlines(_)
universal_newlines(text) ==
    IF text = <<>> THEN <<>>
    ELSE IF text[1] = "\r" /\ Len(text) >= 2 /\ text[2] = "\n"
    THEN <<"\n">> \o universal_newlines(SubSeq(text, 3, Len(text)))
    ELSE IF text[1] = "\r"
    THEN <<"\n">> \o universal_newlines(Tail(text))
    ELSE <<text[1]>> \o universal_newlines(Tail(text))

\* lines 85-90: read as UTF-8, and as latin-1 after a UnicodeDecodeError
read_text(bytes) ==
    LET utf8 == decode_utf8(bytes, 1)
    IN  universal_newlines(IF utf8.ok THEN utf8.text ELSE <<>> \o decode_latin1(bytes))

\* parse_txt without the outer  except Exception : open's own error escapes
parse_txt_unwrapped(f) ==
    IF ~f.exists THEN Raise("FileNotFoundError")
    ELSE IF read_text(f.bytes) = <<>> \/ strip(read_text(f.bytes)) = <<>>
    THEN Raise("EmptyDocumentError")
    ELSE Return(read_text(f.bytes))

\* parse_txt returning  content.strip()  in place of  content
parse_txt_stripped(f) ==
    IF ~f.exists THEN Raise("ParserError")
    ELSE IF read_text(f.bytes) = <<>> \/ strip(read_text(f.bytes)) = <<>>
    THEN Raise("EmptyDocumentError")
    ELSE Return(strip(read_text(f.bytes)))

\* lines 66-101
parse_txt(f) ==
    IF ~f.exists THEN Raise("ParserError")
    ELSE IF read_text(f.bytes) = <<>> \/ strip(read_text(f.bytes)) = <<>>
    THEN Raise("EmptyDocumentError")
    ELSE Return(read_text(f.bytes))

\* "\n".join(text_parts)
RECURSIVE join_text(_, _)
join_text(sep, parts) ==
    IF parts = <<>> THEN <<>>
    ELSE IF Len(parts) = 1 THEN parts[1].s
    ELSE parts[1].s \o sep \o join_text(sep, Tail(parts))

\* line 51: if page_text
page_has_text(page_text) == page_text # None /\ page_text.s # <<>>

\* lines 27-63: a page is what page.extract_text() gives: None, a string, or
\* an error it raises
parse_pdf(f) ==
    IF ~f.exists \/ ~f.pdf THEN Raise("CorruptedFileError")
    ELSE IF \E i \in 1..Len(f.pages) : f.pages[i].t = "raised"
    THEN Raise("CorruptedFileError")
    ELSE IF SelectSeq(f.pages, page_has_text) = <<>>
    THEN Raise("EmptyDocumentError")
    ELSE Return(join_text(<<"\n">>, SelectSeq(f.pages, page_has_text)))

\* lines 104-135
parse_document(f, ft) ==
    IF normalize_file_type(ft) = <<"p","d","f">> THEN parse_pdf(f)
    ELSE IF normalize_file_type(ft) = <<"t","x","t">> THEN parse_txt(f)
    ELSE Raise("ValueError")

----------------------------------------------------------------------------
(* The parser specification: parse_document is called on a file *)

\* contents of TXT files, as bytes
TxtBytes ==
    { <<"h","i">>,
      <<"\n","\t">>,
      <<" ","h","i","\r","\n">>,
      <<"\r">>,
      <<"E9">>,
      <<"a","E9">>,
      <<"C3","A9">>,
      <<" ","C3">>,
      <<"E9","A9","A9">> }
    \cup { blank(n) : n \in 0..MaxBlank }

\* what pdfplumber finds in the pages of PDF files
PdfPages ==
    { <<>>,
      << None >>,
      << Str(<<>>) >>,
      << Str(<<" ">>) >>,
      << Str(<<"h","i">>) >>,
      << Str(<<"a">>), None, Str(<<"b">>) >>,
      << Str(<<"a">>), [t |-> "raised"] >> }

Files ==
    { [exists |-> FALSE, pdf |-> FALSE, bytes |-> <<>>, pages |-> <<>>] }
    \cup { [exists |-> TRUE, pdf |-> FALSE, bytes |-> b, pages |-> <<>>] : b \in TxtBytes }
    \cup { [exists |-> TRUE, pdf |-> TRUE, bytes |-> <<"%","P","D","F","E9">>, pages |-> pg] :
             pg \in PdfPages }

FileTypes ==
    { <<"p","d","f">>, <<"P","D","F">>, <<".","p","d","f">>,
      <<"t","x","t">>, <<".","T","x","t",".">>,
      <<"d","o","c","x">>, <<"p","d","f"," ">>, <<>> }

ParserInit ==
    /\ pc = "start"
    /\ file \in Files
    /\ file_type \in FileTypes
    /\ extracted = None
    /\ missing = <<>>
    /\ missingArg = <<>>
    /\ route = ""
    /\ reasoning = <<>>
    /\ env_key = None
    /\ genai_key = None
    /\ caller = "test"
    /\ raw_text = <<>>
    /\ response = <<>>
    /\ gemini = "untried"
    /\ extracted_dict = None
    /\ serviceCalls = 0
    /\ heuristicRuns = 0
    /\ outcome = [kind |-> "none"]
    /\ calls = <<>>
    /\ genai_writer = 0
    /\ start_key = env_key
    /\ request = None
    /\ temp_file_path = None
    /\ disk = {}

\* parse_document(file_path, file_type): the text it returns, or what it raises
ParseDocument ==
    /\ pc = "start"
    /\ outcome' = parse_document(file, file_type)
    /\ raw_text' = (IF parse_document(file, file_type).kind = "return"
                    THEN parse_document(file, file_type).text ELSE <<>>)
    /\ pc' = "parsed"
    /\ UNCHANGED <<routerVars, env_key, genai_key, caller, response, gemini,
                   extracted_dict, serviceCalls, heuristicRuns, parserVars,
                   threadVars, historyVars, uploadVars>>

ParserNext == ParseDocument

SpecParser == ParserInit /\ [][ParserNext]_vars

Parsed == pc = "parsed"
ParseFailed == Parsed /\ outcome.kind = "raise"

\* C17, as stated: every failure of parse_document is EmptyDocumentError or
\* CorruptedFileError.
C17_Original_TwoFailureKinds ==
    ParseFailed => outcome.exc \in {"EmptyDocumentError", "CorruptedFileError"}

\* C17, amended: every failure of parse_document is one of four kinds:
\* ValueError exactly when the file kind is neither pdf nor txt;
\* CorruptedFileError only for a PDF, ParserError only for a TXT file that
\* cannot be read, EmptyDocumentError for either kind.
C17_FourFailureKinds ==
    ParseFailed =>
        /\ outcome.exc \in {"EmptyDocumentError", "CorruptedFileError",
                            "ParserError", "ValueError"}
        /\ outcome.exc = "ValueError" <=>
              normalize_file_type(file_type) \notin {<<"p","d","f">>, <<"t","x","t">>}
        /\ outcome.exc = "CorruptedFileError" =>
              normalize_file_type(file_type) = <<"p","d","f">>
        /\ outcome.exc = "ParserError" =>
              normalize_file_type(file_type) = <<"t","x","t">> /\ ~file.exists

\* a TXT path with no file behind it: ParserError
C17_Witness ==
    /\ ParseFailed
    /\ ~file.exists
    /\ file_type = <<".","T","x","t",".">>
    /\ outcome = Raise("ParserError")

----------------------------------------------------------------------------
(* The threads specification: extract_fields called from several threads  *)
(* of one process.  A step is one statement that touches what the threads *)
(* share: the environment and the configuration of the genai library.     *)

Threads == 1..NumThreads

\* the credential the environment may hold: unset, empty, or one of two keys
ThreadEnvKeys == EnvKeys \cup {Str(<<"k","2">>)}

idle_call == [pc |-> "idle", key |-> None, sent |-> None, sent_writer |-> 0,
              result |-> "none"]

ThreadsInit ==
    /\ pc = "threads"
    /\ calls = [t \in Threads |-> idle_call]
    /\ genai_writer = 0
    /\ env_key \in ThreadEnvKeys
    /\ start_key = env_key
    /\ request = None
    /\ temp_file_path = None
    /\ disk = {}
    /\ genai_key = None
    /\ extracted = None
    /\ missing = <<>>
    /\ missingArg = <<>>
    /\ route = ""
    /\ reasoning = <<>>
    /\ caller = "thread"
    /\ raw_text = <<>>
    /\ response = <<>>
    /\ gemini = "untried"
    /\ extracted_dict = None
    /\ serviceCalls = 0
    /\ heuristicRuns = 0
    /\ outcome = [kind |-> "none"]
    /\ file = None
    /\ file_type = <<>>

ThreadsFrame ==
    UNCHANGED <<pc, routerVars, caller, raw_text, response, gemini, extracted_dict,
                serviceCalls, heuristicRuns, outcome, parserVars,
                historyVars, uploadVars>>

\* extract_fields(text) is entered (extractor.py line 336)
ThreadCall(t) ==
    /\ calls[t].pc = "idle"
    /\ calls' = [calls EXCEPT ![t].pc = "extract"]
    /\ UNCHANGED <<env_key, genai_key, genai_writer>>
    /\ ThreadsFrame

\* lines 34-38 and 59-61: os.getenv, then genai.configure(api_key=api_key)
\* stores the key in the library, for every thread of the process
ThreadConfigure(t) ==
    /\ calls[t].pc = "extract"
    /\ IF configure_gemini(env_key) = None
       THEN /\ calls' = [calls EXCEPT ![t].pc = "fallback"]
            /\ UNCHANGED <<genai_key, genai_writer>>
       ELSE /\ calls' = [calls EXCEPT ![t].pc = "configured", ![t].key = env_key]
            /\ genai_key' = env_key
            /\ genai_writer' = t
    /\ UNCHANGED env_key
    /\ ThreadsFrame

\* lines 39 and 108-115: the model object sends the request with the key the
\* library holds now; the service answers with usable JSON or the call fails
ThreadGenerate(t) ==
    /\ calls[t].pc = "configured"
    /\ \E ok \in BOOLEAN :
        calls' = [calls EXCEPT ![t].pc = IF ok THEN "returned" ELSE "fallback",
                               ![t].sent = genai_key,
                               ![t].sent_writer = genai_writer,
                               ![t].result = IF ok THEN "gemini" ELSE "none"]
    /\ UNCHANGED <<env_key, genai_key, genai_writer>>
    /\ ThreadsFrame

\* lines 341-343: the heuristic, which reads its argument only
ThreadFallback(t) ==
    /\ calls[t].pc = "fallback"
    /\ calls' = [calls EXCEPT ![t].pc = "returned", ![t].result = "heuristic"]
    /\ UNCHANGED <<env_key, genai_key, genai_writer>>
    /\ ThreadsFrame

\* the environment of the process changes while calls run
ThreadsSetEnv ==
    /\ env_key' \in ThreadEnvKeys \ {env_key}
    /\ UNCHANGED <<calls, genai_key, genai_writer>>
    /\ ThreadsFrame

ThreadsNext ==
    \/ \E t \in Threads : ThreadCall(t)
    \/ \E t \in Threads : ThreadConfigure(t)
    \/ \E t \in Threads : ThreadGenerate(t)
    \/ \E t \in Threads : ThreadFallback(t)
    \/ ThreadsSetEnv

SpecThreads == ThreadsInit /\ [][ThreadsNext]_vars

\* C18: concurrent calls are independent: no call reads state that another
\* call wrote.  A call that has sent its request read the library's
\* configuration as it wrote it itself, with the key it took from the
\* environment.
C18_CallsShareNoState ==
    \A t \in Threads :
        calls[t].sent_writer # 0 =>
            /\ calls[t].sent_writer = t
            /\ calls[t].sent = calls[t].key

----------------------------------------------------------------------------
(* Attempts within one extract_fields call *)

\* an extract_fields call is running or has just returned
InCall == pc \in {"extract", "configured", "responded", "fallback", "extracted"}

\* C19: within one extract_fields call the service is called at most once
\* and never without a credential, the credential being checked before any
\* call; the heuristic runs at most once, and only after the model path has
\* failed.
C19_SingleAttemptEach ==
    InCall =>
        /\ serviceCalls \in {0, 1}
        /\ heuristicRuns \in {0, 1}
        /\ serviceCalls = 1 => ~no_api_key(env_key)
        /\ pc = "extract" => serviceCalls = 0
        /\ heuristicRuns = 1 => gemini \in GeminiFailures
        /\ (gemini \in GeminiFailures \ {"no_key"}) => serviceCalls = 1
        /\ gemini = "ok" => (serviceCalls = 1 /\ heuristicRuns = 0)

\* the service timed out on the one call made, and the heuristic ran once
C19_Witness ==
    /\ pc = "extracted"
    /\ gemini = "timeout"
    /\ serviceCalls = 1
    /\ heuristicRuns = 1

----------------------------------------------------------------------------
(* Failures of the two strategies *)

\* extract_fields has raised to a caller that called it directly
ExtractFieldsRaised == pc = "raised"

\* C20: GeminiAPIError never escapes extract_fields: whatever extract_fields
\* raises is ExtractionError, raised after the model path failed and the
\* heuristic itself raised; a call whose heuristic raises does not return.
\* process_claim answers an ExtractionError of the extraction stage with
\* status 503 and any other exception of that stage with another status.
C20_OnlyExtractionErrorEscapes ==
    /\ outcome.kind = "raise" => outcome.exc = "ExtractionError"
    /\ ExtractFieldsRaised =>
          /\ outcome = Raise("ExtractionError")
          /\ gemini \in GeminiFailures
          /\ heuristicRuns = 1
          /\ heuristic_raises(raw_text)
    /\ (Returned /\ gemini \in GeminiFailures) => ~heuristic_raises(raw_text)
    /\ extraction_failure_response(wrap_heuristic_failure("TypeError").exc).status = 503
    /\ Answered => (outcome.kind = "error" /\ outcome.status = 503) =
                       (heuristicRuns = 1 /\ heuristic_raises(raw_text))

\* the model path timed out, the heuristic raised on an argument that is not
\* a string, and extract_fields raised ExtractionError
C20_Witness ==
    /\ ExtractFieldsRaised
    /\ gemini = "timeout"
    /\ raw_text = NotAString
    /\ outcome = Raise("ExtractionError")

----------------------------------------------------------------------------
(* The priority order of a leaf's alternatives *)

\* what a pattern asks for, item by item
Items(pattern) == IF pattern.k = "cat" THEN pattern.items ELSE <<pattern>>

\* p asks for all that q asks for, behind a longer label
MoreSpecific(p, q) ==
    LET a == Items(p)
        b == Items(q)
    IN  Len(a) > Len(b) /\ SubSeq(a, Len(a) - Len(b) + 1, Len(a)) = b

\* the alternatives with every more specific one ahead of the less specific,
\* in the listed order otherwise
RECURSIVE SpecificFirst(_)
SpecificFirst(patterns) ==
    IF patterns = <<>> THEN <<>>
    ELSE LET top == SetMin({i \in 1..Len(patterns) :
                        \A j \in 1..Len(patterns) :
                            ~MoreSpecific(patterns[j], patterns[i])})
         IN  <<patterns[top]>>
             \o SpecificFirst(SubSeq(patterns, 1, top - 1)
                              \o SubSeq(patterns, top + 1, Len(patterns)))

\* the leaves of extractor.py lines 177-242 and their alternatives
PatternLeaves ==
    { <<"policyInformation", "policyNumber", policy_patterns>>,
      <<"policyInformation", "policyholderName", name_patterns>>,
      <<"incidentInformation", "date", date_patterns>>,
      <<"incidentInformation", "time", time_patterns>>,
      <<"incidentInformation", "location", location_patterns>>,
      <<"incidentInformation", "description", desc_patterns>> }

\* C21: for each leaf the alternatives are tried most specific label first
\* and the leaf holds the capture of the first one that matches the text,
\* whatever the other leaves matched.
C21_MostSpecificLabelFirstWins ==
    HeuristicReturned =>
        \A l \in PatternLeaves :
            extracted_dict.d[l[1]].d[l[2]] = string_leaf(SpecificFirst(l[3]), raw_text)

----------------------------------------------------------------------------
(* The damage amount *)

\* the estimatedDamage leaf of the dict extract_fields returned
ReturnedDamage == extracted_dict.d["assetDetails"].d["estimatedDamage"]

\* the first damage alternative that matches the text, and its amount parsed
\* after the commas are taken out
DamageMatch == first_match(damage_patterns, raw_text, 1)
DamageParsed == float_of(remove_commas(DamageMatch.group1))

\* C22: the amount is parsed without its currency symbol and its thousands
\* separators ('$5,000.00' is 5000.0); an amount that does not parse leaves
\* estimatedDamage absent, raises nothing, and ends the search: the damage
\* alternatives after the one that matched are not tried.
C22_DamageStrippedThenParsedOrAbsent ==
    HeuristicReturned =>
        /\ extracted_dict.t = "dict"
        /\ Contains(raw_text, T_low) => ReturnedDamage = Float(500000)
        /\ (DamageMatch.index # 0 /\ DamageParsed.ok) => ReturnedDamage = DamageParsed.value
        /\ (DamageMatch.index # 0 /\ ~DamageParsed.ok) => ReturnedDamage = None
        /\ DamageMatch.index = 0 => ReturnedDamage = None

\* 'Damage: ,' matched the second alternative and did not parse, while the
\* third alternative would have matched 'Loss Amount: 5'
C22_Witness ==
    /\ HeuristicReturned
    /\ raw_text = T_unparsed
    /\ DamageMatch.index = 2
    /\ ~DamageParsed.ok
    /\ search(damage_patterns[3], raw_text).found
    /\ ReturnedDamage = None

----------------------------------------------------------------------------
(* The paths in the ManualReview reasoning *)

\* the mandatory paths the reasoning text names, in the order it names them
PathsNamed(text) ==
    SelectSeq(text, LAMBDA part : \E i \in 1..Len(MANDATORY_FIELDS) : part = MANDATORY_FIELDS[i])

\* C23: the ManualReview reasoning holds every path of the list that was
\* passed, verbatim, in the order of the list, with ", " between neighbours,
\* and names no mandatory path that is not in the list.
C23_ReasoningListsMissingInOrder ==
    (Routed /\ route = "ManualReview") =>
        /\ Len(reasoning) = 2 * Len(missingArg) + 2
        /\ \A i \in 1..Len(missingArg) : reasoning[2 * i] = missingArg[i]
        /\ \A i \in 1..(Len(missingArg) - 1) : reasoning[2 * i + 1] = ", "
        /\ PathsNamed(reasoning) = missingArg

\* ManualReview on the validator's own list of three or more paths
C23_Witness ==
    /\ Routed
    /\ route = "ManualReview"
    /\ missingArg = missing
    /\ Len(missingArg) >= 3
    /\ PathsNamed(reasoning) = missing

----------------------------------------------------------------------------
(* What the validator and the classifier leave alone *)

\* a step that is a call of identify_missing_fields or of determine_route
ValidatorCall == pc = "start" /\ pc' = "validated"
ClassifierCall == pc \in {"validated", "routed"} /\ pc' \in {"routed", "rerouted"}

----------------------------------------------------------------------------
(* What parse_txt gives for a file that can be read *)

\* parse_document has passed the file, which exists, to parse_txt
TxtParsed ==
    Parsed /\ file.exists /\ normalize_file_type(file_type) = <<"t","x","t">>

\* the characters the file's bytes stand for: as UTF-8 where the bytes are
\* valid UTF-8, as latin-1 otherwise
DecodedContent(bytes) ==
    IF decode_utf8(bytes, 1).ok THEN decode_utf8(bytes, 1).text
    ELSE <<>> \o decode_latin1(bytes)

\* str.strip() leaves nothing: every character is whitespace ("\r" is)
OnlyWhitespace(text) == \A i \in 1..Len(text) : text[i] \in Whitespace \cup {"\r"}

\* C25 as stated: EmptyDocumentError exactly for the files whose decoded
\* content is empty or only whitespace, and otherwise the decoded content is
\* returned unchanged, decoded as latin-1 where it is not valid UTF-8.
C25_Original_ContentUnchanged ==
    TxtParsed =>
        IF OnlyWhitespace(DecodedContent(file.bytes))
        THEN outcome = Raise("EmptyDocumentError")
        ELSE outcome = Return(DecodedContent(file.bytes))

\* C25 (amended): EmptyDocumentError exactly for the files whose decoded
\* content is empty or only whitespace; otherwise parse_txt returns the whole
\* decoded content, nothing trimmed, with every "\r\n" and every other "\r"
\* read as "\n"; bytes that are not valid UTF-8 are decoded as latin-1.
C25_ContentWithNewlinesTranslated ==
    TxtParsed =>
        IF OnlyWhitespace(DecodedContent(file.bytes))
        THEN outcome = Raise("EmptyDocumentError")
        ELSE /\ outcome = Return(universal_newlines(DecodedContent(file.bytes)))
             /\ Len(outcome.text) <= Len(file.bytes)
             /\ \A i \in 1..Len(outcome.text) : outcome.text[i] # "\r"

\* a file in DOS line ends with a leading blank: the blank and the line end
\* are returned, the line end as "\n"
C25_Witness ==
    /\ TxtParsed
    /\ file.bytes = <<" ","h","i","\r","\n">>
    /\ outcome = Return(<<" ","h","i","\n">>)

----------------------------------------------------------------------------
(* Where a fraud keyword counts *)

\* C26: Investigation is returned only for a claim whose description is
\* present and holds a fraud keyword; a keyword in the location, the claim
\* type, a name or an asset field does not give it, nor does an absent
\* description.
C26_InvestigationOnlyFromDescription ==
    (Routed /\ route = "Investigation") => HasFraudKeyword(extracted)

\* routed elsewhere with a keyword in every other text field: the location,
\* the policyholder name, the claimant, the asset fields and the claim type
C26_Witness ==
    /\ Routed
    /\ extracted.incidentInformation.description = None
    /\ extracted.incidentInformation.location = Str(<<"f","r","a","u","d">>)
    /\ extracted.policyInformation.policyholderName = Str(<<"f","r","a","u","d">>)
    /\ extracted.involvedParties.claimant = Str(<<"f","r","a","u","d">>)
    /\ extracted.assetDetails.assetType = Str(<<"f","r","a","u","d">>)
    /\ extracted.claimType = Str(<<"s","t","a","g","e","d">>)
    /\ route = "ManualReview"

----------------------------------------------------------------------------
(* Route and missing list in one response *)

\* process_claim has returned a ProcessClaimResponse
Responded == Answered /\ outcome.kind = "response"

\* C27: in a response ManualReview comes only with a non-empty missing list,
\* SpecialistQueue, FastTrack and Standard only with an empty one, and
\* Standard only with an estimatedDamage that is present and at least
\* FAST_TRACK_THRESHOLD.
C27_RouteAndMissingAgree ==
    Responded =>
        /\ route = "ManualReview" => missing # <<>>
        /\ route \in {"SpecialistQueue", "FastTrack", "Standard"} => missing = <<>>
        /\ route = "Standard" =>
              LET estimated_damage == extracted.assetDetails.estimatedDamage
              IN  /\ estimated_damage # None
                  /\ ~estimated_damage.nan
                  /\ estimated_damage.cents >= FAST_TRACK_THRESHOLD

----------------------------------------------------------------------------
(* app/main.py: process_claim called with an upload *)

\* line 52
MAX_FILE_SIZE == 10485760

\* pathlib: Path(filename).suffix, the last dot of the final component and
\* what follows it, unless that dot leads or ends the name
path_suffix(filename) ==
    LET slashes == {i \in 1..Len(filename) : filename[i] = "/"}
        name == IF slashes = {} THEN filename
                ELSE SubSeq(filename, SetMax(slashes) + 1, Len(filename))
        dots == {i \in 1..Len(name) : name[i] = "."}
    IN  IF dots = {} \/ SetMax(dots) = 1 \/ SetMax(dots) = Len(name) THEN <<>>
        ELSE SubSeq(name, SetMax(dots), Len(name))

\* line 116
file_extension_of(filename) == strip_chars(lower(path_suffix(filename)), {"."})

\* the handlers with CorruptedFileError left to the catch-all
parse_failure_response_unnamed_corrupted(exc) ==
    CASE exc = "EmptyDocumentError" -> HTTPError(400, "EmptyDocument")
      [] exc = "ParserError" -> HTTPError(500, "ParsingError")
      [] OTHER -> HTTPError(500, "InternalError")

\* lines 152-175, and lines 242-251 for what they do not name
parse_failure_response(exc) ==
    CASE exc = "EmptyDocumentError" -> HTTPError(400, "EmptyDocument")
      [] exc = "CorruptedFileError" -> HTTPError(400, "CorruptedFile")
      [] exc = "ParserError" -> HTTPError(500, "ParsingError")
      [] OTHER -> HTTPError(500, "InternalError")

\* the name tempfile gives the next temporary file: one not on disk
TempPath(n) == [t |-> "path", n |-> n]
new_temp_path(files) ==
    TempPath(SetMin({n \in 1..(Cardinality(files) + 1) : TempPath(n) \notin files}))

\* lines 99-190, up to the call of extract_fields: the answer when the request
\* ends here, the text when it goes on, the local temp_file_path, and whether
\* NamedTemporaryFile made a file.  A failing write leaves the  with  block
\* before temp_file_path is assigned (line 146); a failing close leaves it
\* after.
receive(f, text, disk_event, files) ==
    LET file_extension == file_extension_of(f.filename)
        path == new_temp_path(files)
        parsed == parse_document(f.content, file_extension)
        stop(answer, temp, made) ==
            [answer |-> answer, raw_text |-> <<>>, temp_file_path |-> temp, created |-> made]
    IN  IF f = None /\ text = None
        THEN stop(HTTPError(400, "MissingInput"), None, FALSE)
        ELSE IF f = None
        THEN IF is_empty_text(text.s)
             THEN stop(HTTPError(400, "EmptyText"), None, FALSE)
             ELSE [answer |-> [kind |-> "none"], raw_text |-> text.s,
                   temp_file_path |-> None, created |-> FALSE]
        ELSE IF file_extension \notin {<<"p","d","f">>, <<"t","x","t">>}
        THEN stop(HTTPError(400, "UnsupportedFileType"), None, FALSE)
        ELSE IF f.size > MAX_FILE_SIZE
        THEN stop(HTTPError(413, "FileTooLarge"), None, FALSE)
        ELSE IF disk_event = "write_fails"
        THEN stop(HTTPError(500, "InternalError"), None, TRUE)
        ELSE IF disk_event = "close_fails"
        THEN stop(HTTPError(500, "InternalError"), path, TRUE)
        ELSE IF parsed.kind = "raise"
        THEN stop(parse_failure_response(parsed.exc), path, TRUE)
        ELSE [answer |-> [kind |-> "none"], raw_text |-> parsed.text,
              temp_file_path |-> path, created |-> TRUE]

\* the requests
Filenames ==
    { <<"a",".","p","d","f">>, <<"a",".","T","X","T">>, <<"b",".","a",".","t","x","t">>,
      <<"a",".","d","o","c","x">>, <<"a">>, <<".","p","d","f">> }
Sizes == {2, MAX_FILE_SIZE, MAX_FILE_SIZE + 1}
UploadContents ==
    { f \in Files :
        f.exists /\ (f.pdf \/ f.bytes \in {<<"h","i">>, <<"\n","\t">>, <<"a","E9">>}) }
Uploads ==
    { [filename |-> n, content |-> c, size |-> z] :
        n \in Filenames, c \in UploadContents, z \in Sizes }
RequestTexts == { Str(<<>>), Str(<<" ">>), Str(<<"h","i">>) }
DiskEvents == {"written", "write_fails", "close_fails"}
\* file and text of a request: text alone, a file alone, or both
Requests ==
    { [file |-> None, text |-> t] : t \in RequestTexts \cup {None} }
    \cup { [file |-> f, text |-> t] : f \in Uploads, t \in {None, Str(<<"h","i">>)} }

\* process_claim(file, text) up to extract_fields, and through  finally  when
\* the request ends before it
ProcessClaim ==
    /\ pc = "idle"
    /\ Cardinality(disk) < MaxTempFiles
    /\ \E q \in Requests, disk_event \in DiskEvents :
        LET r == receive(q.file, q.text, disk_event, disk)
            files == IF r.created THEN disk \cup {new_temp_path(disk)} ELSE disk
        IN  /\ NewCall("process_claim", r.raw_text)
            /\ request' = [file |-> q.file, text |-> q.text, disk_event |-> disk_event]
            /\ temp_file_path' = r.temp_file_path
            /\ outcome' = r.answer
            /\ pc' = IF r.answer.kind = "none" THEN "extract" ELSE "done"
            /\ finally(r.answer.kind # "none", r.temp_file_path, files)

UploadNext ==
    \/ ProcessClaim
    \/ ConfigureGemini
    \/ GenerateContent
    \/ ParseResponse
    \/ HeuristicFallback
    \/ BuildModel
    \/ ValidateAndRoute
    \/ NextCall

SpecUpload == Init /\ [][UploadNext]_vars

----------------------------------------------------------------------------
(* The temporary file of a request *)

\* the request is over: process_claim has answered or raised
Finished == pc = "done" /\ caller = "process_claim"

\* C28: when a request that uploaded a file is over, no temporary file it
\* made is on disk, whether it ended in a response or in an error of the
\* write, of the parser, of the extraction, or any other.
C28_TempFileGoneWhenFinished ==
    (Finished /\ request # None /\ request.file # None) => disk = {}

----------------------------------------------------------------------------
(* The status of a failed request *)

\* the name ends in .pdf or .txt, in any case, after at least one character
EndsWith(filename, ending) ==
    /\ Len(filename) > Len(ending)
    /\ lower(SubSeq(filename, Len(filename) - Len(ending) + 1, Len(filename))) = ending
SupportedName(filename) ==
    EndsWith(filename, <<".","p","d","f">>) \/ EndsWith(filename, <<".","t","x","t">>)

\* what reading the saved upload gives
UploadParsed(f) ==
    parse_document(f.content, lower(SubSeq(f.filename, Len(f.filename) - 2, Len(f.filename))))

\* the status the claim gives the first failure of a request before field
\* extraction begins; 0 when the request has none
InputFailureStatus(q) ==
    IF q.file = None /\ q.text = None THEN 400
    ELSE IF q.file = None
    THEN IF \A i \in 1..Len(q.text.s) : q.text.s[i] \in Whitespace THEN 400 ELSE 0
    ELSE IF ~SupportedName(q.file.filename) THEN 400
    ELSE IF q.file.size > 10 * 1024 * 1024 THEN 413
    ELSE IF q.disk_event # "written" THEN 500
    ELSE IF UploadParsed(q.file).kind # "raise" THEN 0
    ELSE IF UploadParsed(q.file).exc \in {"EmptyDocumentError", "CorruptedFileError"}
    THEN 400
    ELSE 500

----------------------------------------------------------------------------
(* The text that reaches field extraction *)

\* parse_document has returned the text of the upload and extract_fields is
\* about to be called with it
UploadReachesExtraction ==
    pc = "extract" /\ caller = "process_claim" /\ request # None /\ request.file # None

\* C30: the text parse_document returns, for a PDF as for a TXT file, holds
\* at least one character that is not whitespace; an upload with only
\* whitespace to extract is an EmptyDocumentError and never reaches field
\* extraction.
C30_ParsedTextHasContent ==
    UploadReachesExtraction =>
        /\ raw_text = UploadParsed(request.file).text
        /\ ~OnlyWhitespace(raw_text)

====
